---- MODULE Spec2Model ----
(***************************************************************************)
(* A model of the esp-bluedroid GATT peripheral framework: the server      *)
(* protocol dispatcher (Read / Write / ExecWrite / PeerConnected /         *)
(* PeerDisconnected / Mtu), the handle-indexed attribute registry, the     *)
(* prepare-write buffers, the default attribute codecs, the indication     *)
(* round of Characteristic::update_value, the auto-advertising loop of the *)
(* GAP side, and the correlated operations (application, service,          *)
(* characteristic and descriptor registration, service start and stop,     *)
(* start_advertising) with the router of their reply senders.              *)
(***************************************************************************)
EXTENDS Integers, Sequences, FiniteSets, TLC

VARIABLES
    attributes,     \* GattsInner.attributes: Handle -> attribute object
    attr_value,     \* AttributeInner.value of every attribute object
    updates_len,    \* occupancy of every AttributeInner.updates channel (capacity 1)
    write_buffer,   \* GattsInner.write_buffer: TransferId -> PrepareWriteBuffer
    apps,           \* GattsInner.apps: GattInterface -> AppInner.connections (ConnectionId -> mtu)
    gap_conn_len,   \* occupancy of gap_connections_tx/rx (capacity 1)
    gap_status,     \* the ConnectionStatus held by that channel: <<>> or <<record>>
    conn_len,       \* occupancy of connections_tx/rx (capacity 1)
    max_connections,\* GapConfig.max_connections
    gap_last,       \* what the auto-advertising loop did with the last status it received
    gap_seen,       \* that status: <<>> or <<record>>
    disp,           \* dispatcher thread: "idle", "blocked" (in a channel send) or "dead" (panicked)
    pending,        \* the handler the dispatcher is blocked in: <<>> or <<record>>
    last_kind,      \* kind of the event the dispatcher took last
    last_event,     \* the Read, Write or ExecWrite event it took last: <<>> or <<record>>
    sent,           \* host send_response calls issued by the handler of that event
    result,         \* what that handler returned: "none" (not returned), "ok", "err", "panic"
    char_value,     \* CharacteristicInner.value (bytes of the value) of the characteristic
    char_updates_len, \* occupancy of CharacteristicInner.updates channel (capacity 1)
    indicated,      \* host indicate calls issued by the last update_value
    uv_result,      \* what the last update_value returned: "none", "ok", "err"
    gatts_events,   \* GattsInner.gatts_events: event kind -> who holds the receiver of its sender
    gap_events,     \* GapInner.gap_events: the event kinds a sender is installed for
    op_last,        \* the correlated operation that returned last: <<>> or <<record>>
    app_interface,  \* AppInner.gatt_interface
    service_handle, \* ServiceInner.handle
    service_characteristics, \* ServiceInner.characteristics: Handle -> characteristic object
    char_handle,    \* CharacteristicInner.handle of every characteristic object
    desc_handle,    \* AttributeInner.handle of every descriptor object
    desc_characteristic, \* DescriptorInner.characteristic of every descriptor object
    wait,           \* the recv_timeout a correlated operation is blocked in: <<>> or <<record>>
    attr,           \* a typed attribute object on its own, AttributeInner<T>: <<>> or <<record>>
    global_len,     \* events in the channel from the host callback to the dispatcher thread
    callback,       \* the host callback: "idle" or "blocked" (in the send to the dispatcher)
    desc_replies,   \* DescriptorAdded replies of the host on their way that no operation waits for
    adv,            \* the Gatts handle of the application and the auto-advertising thread
    upd             \* the threads inside update_value: position, locks held, Confirm channel

vars == <<attributes, attr_value, updates_len, write_buffer, apps, gap_conn_len,
          gap_status, conn_len, max_connections, gap_last, gap_seen, disp, pending, last_kind, last_event, sent,
          result, char_value, char_updates_len, indicated, uv_result,
          gatts_events, gap_events, op_last, app_interface, service_handle,
          service_characteristics, char_handle, desc_handle, desc_characteristic, wait, attr, global_len, callback, desc_replies, adv, upd>>

gattsVars == <<attributes, attr_value, updates_len, write_buffer>>
connVars  == <<apps, gap_conn_len, gap_status, conn_len>>
gapVars   == <<max_connections, gap_last, gap_seen>>
dispVars  == <<disp, pending, last_kind, last_event, sent, result>>
charVars  == <<char_value, char_updates_len, indicated, uv_result>>
routerVars == <<gatts_events, gap_events>>
regVars   == <<op_last, app_interface, service_handle, service_characteristics,
               char_handle, desc_handle, desc_characteristic, wait, attr, global_len, callback, desc_replies, adv, upd>>

-----------------------------------------------------------------------------
(* Bounds of the model.                                                    *)

MaxOffset == 1          \* Write offsets are 0..MaxOffset
MaxConn == 2            \* connection ids are 1..MaxConn
MaxReadOffset == 3      \* Read offsets are 0..MaxReadOffset
MaxMaxConnections == 1  \* GapConfig.max_connections is None or Some(0..MaxMaxConnections)
MaxGapConn == 1         \* connection ids under SpecGap are 1..MaxGapConn

(* Program constants.                                                      *)

ESP_GATT_MAX_ATTR_LEN == 600
U16_MODULUS == 65536    \* offset, mtu and `len as u16` are u16
CHANNEL_CAPACITY == 1   \* every bounded(1) channel

None == -1              \* Option::None of an Option<u16>

Handles == {1, 2, 3}    \* handle 3 is never registered
TransIds == {7}
Interfaces == {1, 2}    \* interface 2 is never registered
ConnIds == 1..MaxConn
Mtus == {2, 65535}
GapConnIds == 1..MaxGapConn
GapMtus == {2}          \* the MTU negotiated under SpecGap
WriteValues == {<<2>>}
WriteOffsets == 0..MaxOffset
ReadOffsets == 0..MaxReadOffset
CharInterface == 1      \* the interface of the characteristic's application
CharHandle == 4         \* the handle of the characteristic
CharValues == {<<5, 6>>}
\* what comes back for an indicate call: "failed" stands for the host call
\* returning an error, no Confirm within 5 s, or a Confirm with another
\* conn_id, another handle or a status other than Ok
IndOutcomes == {"confirmed", "failed"}
GapApps == {1, 2}       \* the interfaces of the applications registered under SpecGap
GapInterfaces == {1, 2, 3}  \* the interfaces its connection events carry
MaxConnectionsValues == {None} \cup (0..MaxMaxConnections)
ReadPeers == {1}        \* the peer whose connection the reads are served over
\* what happens to a send_response call: "failed" stands for the host call
\* returning an error, no ResponseComplete within 5 s, or a ResponseComplete
\* with another handle or a status other than Ok (all return Err)
SendOutcomes == {"ok", "failed"}

Min(a, b) == IF a < b THEN a ELSE b

MapPut(f, k, v) == [x \in DOMAIN f \cup {k} |-> IF x = k THEN v ELSE f[x]]
MapRemove(f, k) == [x \in DOMAIN f \ {k} |-> f[x]]

-----------------------------------------------------------------------------
(* Default codecs (attribute/defaults.rs).  A decoded value is kept in its *)
(* typed form: a number for the integer codecs up to 16 bits and for       *)
(* I32Attr, the two 16-bit halves [hi, lo] of the 32 bits for U32Attr and  *)
(* for the bit pattern of F32Attr, a BOOLEAN for BoolAttr, the sequence of *)
(* Unicode scalar values for StringAttr, the byte sequence for BytesAttr.  *)

Codecs == {"U8", "U16", "U32", "I8", "I16", "I32", "Bool", "F32", "String", "Bytes"}

(* Byte i holds bits 8(width-i) .. 8(width-i)+7 of the two's complement    *)
(* of v.                                                                   *)
to_be_bytes(v, width) == [i \in 1..width |-> (v \div (256 ^ (width - i))) % 256]

(* {integer}::to_le_bytes: byte i holds bits 8(i-1) .. 8i-1 of the two's   *)
(* complement of v.                                                        *)
to_le_bytes(v, width) == [i \in 1..width |-> (v \div (256 ^ (i - 1))) % 256]

(* `byte as i8`                                                            *)
as_i8(byte) == IF byte >= 128 THEN byte - 256 ELSE byte

(* u16::from_le_bytes, i16::from_le_bytes and i32::from_le_bytes           *)
u16_from_le_bytes(bytes) == bytes[1] + 256 * bytes[2]
i16_from_le_bytes(bytes) == bytes[1] + 256 * as_i8(bytes[2])
i32_from_le_bytes(bytes) ==
    bytes[1] + 256 * bytes[2] + 65536 * bytes[3] + 16777216 * as_i8(bytes[4])

(* u32::from_le_bytes and the bits of f32::from_le_bytes                   *)
u32_from_le_bytes(bytes) ==
    [lo |-> u16_from_le_bytes(SubSeq(bytes, 1, 2)),
     hi |-> u16_from_le_bytes(SubSeq(bytes, 3, 4))]

(* The UTF-8 encoding of one Unicode scalar value.                         *)
utf8_char(cp) ==
    IF cp < 128 THEN <<cp>>
    ELSE IF cp < 2048 THEN <<192 + (cp \div 64), 128 + (cp % 64)>>
    ELSE IF cp < 65536
    THEN <<224 + (cp \div 4096), 128 + ((cp \div 64) % 64), 128 + (cp % 64)>>
    ELSE <<240 + (cp \div 262144), 128 + ((cp \div 4096) % 64), 128 + ((cp \div 64) % 64),
           128 + (cp % 64)>>

(* str::as_bytes: the UTF-8 encoding of a string.                          *)
RECURSIVE as_bytes(_)
as_bytes(str) == IF str = <<>> THEN <<>> ELSE utf8_char(Head(str)) \o as_bytes(Tail(str))

(* A UTF-8 continuation byte.                                              *)
IsContinuation(bytes, i) == i <= Len(bytes) /\ bytes[i] >= 128 /\ bytes[i] < 192

(* String::from_utf8 from position i on: the scalar values decoded, or the *)
(* failure on a truncated, overlong, surrogate or out-of-range sequence.   *)
RECURSIVE from_utf8_at(_, _)
from_utf8_at(bytes, i) ==
    IF i > Len(bytes) THEN [ok |-> TRUE, val |-> <<>>]
    ELSE LET b == bytes[i]
             n == IF b < 128 THEN 1
                  ELSE IF b >= 194 /\ b < 224 THEN 2
                  ELSE IF b >= 224 /\ b < 240 THEN 3
                  ELSE IF b >= 240 /\ b < 245 THEN 4
                  ELSE 0
             cp == CASE n = 1 -> b
                     [] n = 2 -> (b - 192) * 64 + (bytes[i + 1] - 128)
                     [] n = 3 -> (b - 224) * 4096 + (bytes[i + 1] - 128) * 64
                                    + (bytes[i + 2] - 128)
                     [] n = 4 -> (b - 240) * 262144 + (bytes[i + 1] - 128) * 4096
                                    + (bytes[i + 2] - 128) * 64 + (bytes[i + 3] - 128)
                     [] OTHER -> 0
             wellFormed ==
                 /\ n > 0
                 /\ \A k \in 1..(n - 1) : IsContinuation(bytes, i + k)
         IN  IF ~wellFormed THEN [ok |-> FALSE, val |-> <<>>]
             ELSE IF \/ n = 3 /\ (cp < 2048 \/ (cp >= 55296 /\ cp < 57344))
                     \/ n = 4 /\ (cp < 65536 \/ cp > 1114111)
             THEN [ok |-> FALSE, val |-> <<>>]
             ELSE LET rest == from_utf8_at(bytes, i + n)
                  IN  IF rest.ok THEN [ok |-> TRUE, val |-> <<cp>> \o rest.val]
                      ELSE [ok |-> FALSE, val |-> <<>>]

from_utf8(bytes) == from_utf8_at(bytes, 1)

get_bytes(codec, v) ==
    CASE codec = "U8"     -> <<v>>
      [] codec = "U16"    -> to_le_bytes(v, 2)
      [] codec = "U32"    -> to_le_bytes(v.lo, 2) \o to_le_bytes(v.hi, 2)
      [] codec = "I8"     -> to_le_bytes(v, 1)
      [] codec = "I16"    -> to_le_bytes(v, 2)
      [] codec = "I32"    -> to_le_bytes(v, 4)
      [] codec = "Bool"   -> <<IF v THEN 1 ELSE 0>>
      [] codec = "F32"    -> to_le_bytes(v.lo, 2) \o to_le_bytes(v.hi, 2)
      [] codec = "String" -> as_bytes(v)
      [] codec = "Bytes"  -> v

from_bytes(codec, bytes) ==
    CASE codec = "U8"     ->
            IF Len(bytes) # 1 THEN [ok |-> FALSE, val |-> 0]
            ELSE [ok |-> TRUE, val |-> bytes[1]]
      [] codec = "U16"    ->
            IF Len(bytes) # 2 THEN [ok |-> FALSE, val |-> 0]
            ELSE [ok |-> TRUE, val |-> u16_from_le_bytes(bytes)]
      [] codec = "U32"    ->
            IF Len(bytes) # 4 THEN [ok |-> FALSE, val |-> 0]
            ELSE [ok |-> TRUE, val |-> u32_from_le_bytes(bytes)]
      [] codec = "I8"     ->
            IF Len(bytes) # 1 THEN [ok |-> FALSE, val |-> 0]
            ELSE [ok |-> TRUE, val |-> as_i8(bytes[1])]
      [] codec = "I16"    ->
            IF Len(bytes) # 2 THEN [ok |-> FALSE, val |-> 0]
            ELSE [ok |-> TRUE, val |-> i16_from_le_bytes(bytes)]
      [] codec = "I32"    ->
            IF Len(bytes) # 4 THEN [ok |-> FALSE, val |-> 0]
            ELSE [ok |-> TRUE, val |-> i32_from_le_bytes(bytes)]
      [] codec = "Bool"   ->
            IF Len(bytes) # 1 THEN [ok |-> FALSE, val |-> FALSE]
            ELSE [ok |-> TRUE, val |-> bytes[1] # 0]
      [] codec = "F32"    ->
            IF Len(bytes) # 4 THEN [ok |-> FALSE, val |-> 0]
            ELSE [ok |-> TRUE, val |-> u32_from_le_bytes(bytes)]
      [] codec = "String" -> from_utf8(bytes)
      [] codec = "Bytes"  -> [ok |-> TRUE, val |-> bytes]

(* The attribute objects of the model: two descriptors.                    *)
Descs == {"dBytes", "dBool"}

(* The characteristic objects of the registration actions: one configured  *)
(* without notify and indicate, one with indicate.                         *)
Chars == {"cPlain", "cIndicate"}
DescCodec(d) == IF d = "dBytes" THEN "Bytes" ELSE "Bool"

(* Two application threads, each calling update_value on a characteristic  *)
(* of its own; both characteristics belong to the application              *)
(* CharInterface, which has one connected peer.                            *)
Threads == {"t1", "t2"}

(* Values the application constructs the attributes with.                  *)
LongValue == [i \in 1..(ESP_GATT_MAX_ATTR_LEN + 1) |-> 1]
ReadValues == {<<>>, <<1, 2>>, LongValue}

(* The bytes of the value the attribute was constructed with.              *)
AttrBytesAtConstruction(d) == get_bytes(DescCodec(d), IF d = "dBytes" THEN <<>> ELSE FALSE)

(* AnyAttribute::get_bytes of the attribute registered under a handle.     *)
AttrBytes(d) == get_bytes(DescCodec(d), attr_value[d])

-----------------------------------------------------------------------------
(* Initial state: the server is constructed, application 1 is registered,  *)
(* the two descriptors are registered under handles 1 and 2, the           *)
(* characteristic under CharHandle.  InitWith(b) is that state with the    *)
(* BytesAttr descriptor constructed with value b.                          *)

(* The router after Gatts::new (the dispatcher's sender under the six     *)
(* kinds it handles), and nothing registered through the application,     *)
(* service, characteristic and descriptor objects of the registration     *)
(* actions.  `started` are the GAP event kinds a sender was installed for: *)
(* a peer connects to an advertising device only, so the states of a       *)
(* running server follow a call of start_advertising.                      *)
DispatcherKinds == {"Read", "Write", "ExecWrite", "PeerConnected", "PeerDisconnected", "Mtu"}

InitRouter(started) ==
    /\ gatts_events = [k \in DispatcherKinds |-> "dispatcher"]
    /\ gap_events = started
    /\ op_last = <<>>
    /\ app_interface = None
    /\ service_handle = None
    /\ service_characteristics = <<>>
    /\ char_handle = [c \in Chars |-> None]
    /\ desc_handle = [d \in Descs |-> None]
    /\ desc_characteristic = [d \in Descs |-> "none"]
    /\ wait = <<>>
    /\ global_len = 0
    /\ callback = "idle"
    /\ desc_replies = 0
    /\ adv = [gatts |-> "held", pc |-> "recv", late_calls |-> 0]
    /\ upd = [pc |-> [t \in Threads |-> "idle"],
              locks |-> [t \in Threads |-> <<>>],
              rx |-> [t \in Threads |-> <<>>],
              result |-> [t \in Threads |-> "none"],
              confirms |-> {}]

InitRegistrationWith(started) == InitRouter(started) /\ attr = <<>>

InitWith(b) ==
    /\ attributes = [h \in {1, 2} |-> IF h = 1 THEN "dBytes" ELSE "dBool"]
    /\ attr_value = [d \in Descs |-> IF d = "dBytes" THEN b ELSE FALSE]
    /\ updates_len = [d \in Descs |-> 0]
    /\ write_buffer = <<>>
    /\ apps = [i \in {1} |-> <<>>]
    /\ gap_conn_len = 0
    /\ gap_status = <<>>
    /\ conn_len = 0
    /\ max_connections = 1
    /\ gap_last = "none"
    /\ gap_seen = <<>>
    /\ disp = "idle"
    /\ pending = <<>>
    /\ last_kind = "none"
    /\ last_event = <<>>
    /\ sent = <<>>
    /\ result = "none"
    /\ char_value = <<>>
    /\ char_updates_len = 0
    /\ indicated = <<>>
    /\ uv_result = "none"
    /\ InitRegistrationWith({"AdvertisingStarted"})

Init == InitWith(<<>>)

InitRead == \E b \in ReadValues : InitWith(b)

(* The same state with the applications of interfaces A registered.       *)
InitWithApps(A) ==
    /\ attributes = [h \in {1, 2} |-> IF h = 1 THEN "dBytes" ELSE "dBool"]
    /\ attr_value = [d \in Descs |-> IF d = "dBytes" THEN <<>> ELSE FALSE]
    /\ updates_len = [d \in Descs |-> 0]
    /\ write_buffer = <<>>
    /\ apps = [i \in A |-> <<>>]
    /\ gap_conn_len = 0
    /\ gap_status = <<>>
    /\ conn_len = 0
    /\ max_connections = 1
    /\ gap_last = "none"
    /\ gap_seen = <<>>
    /\ disp = "idle"
    /\ pending = <<>>
    /\ last_kind = "none"
    /\ last_event = <<>>
    /\ sent = <<>>
    /\ result = "none"
    /\ char_value = <<>>
    /\ char_updates_len = 0
    /\ indicated = <<>>
    /\ uv_result = "none"
    /\ InitRegistrationWith({"AdvertisingStarted"})

InitGap == InitWithApps(GapApps)

(* The same state with some peers connected to application CharInterface.  *)
InitWithPeers(S) ==
    /\ attributes = [h \in {1, 2} |-> IF h = 1 THEN "dBytes" ELSE "dBool"]
    /\ attr_value = [d \in Descs |-> IF d = "dBytes" THEN <<>> ELSE FALSE]
    /\ updates_len = [d \in Descs |-> 0]
    /\ write_buffer = <<>>
    /\ apps = [i \in {CharInterface} |-> [c \in S |-> None]]
    /\ gap_conn_len = 0
    /\ gap_status = <<>>
    /\ conn_len = 0
    /\ max_connections = 1
    /\ gap_last = "none"
    /\ gap_seen = <<>>
    /\ disp = "idle"
    /\ pending = <<>>
    /\ last_kind = "none"
    /\ last_event = <<>>
    /\ sent = <<>>
    /\ result = "none"
    /\ char_value = <<>>
    /\ char_updates_len = 0
    /\ indicated = <<>>
    /\ uv_result = "none"
    /\ InitRegistrationWith({"AdvertisingStarted"})

InitIndicate == \E S \in SUBSET ConnIds : InitWithPeers(S)

-----------------------------------------------------------------------------
(* GattsInner::send_response: the host call is issued once; `sr` is what    *)
(* happens to it (the host call fails, no ResponseComplete arrives in 5 s, *)
(* ResponseComplete carries another status or another handle).            *)

SendCall(gatts_if, conn_id, trans_id, status, response) ==
    [gatts_if |-> gatts_if, conn_id |-> conn_id, trans_id |-> trans_id,
     status |-> status, response |-> response]

send_response_ok(sr) == sr = "ok"

(* GattResponse: attr_handle, auth_req = 0, offset, value.                 *)
GattResponse(handle, offset, value) ==
    <<[attr_handle |-> handle, auth_req |-> 0, offset |-> offset, value |-> value]>>
NoResponse == <<>>

(* GattsInner::get_attribute                                               *)
get_attribute_ok(handle) == handle \in DOMAIN attributes

-----------------------------------------------------------------------------
(* Vec::resize(n, 0) when the buffer is shorter than n, then               *)
(* value[offset..offset+len].copy_from_slice(chunk).                       *)

Resize(buf, n) ==
    IF Len(buf) < n THEN buf \o [i \in 1..(n - Len(buf)) |-> 0] ELSE buf

CopyFromSlice(buf, offset, chunk) ==
    SubSeq(buf, 1, offset) \o chunk \o SubSeq(buf, offset + Len(chunk) + 1, Len(buf))

(* A splice that ignores the offset and appends the chunk.                 *)
SpliceChunkAppend(buf, offset, chunk) == buf \o chunk

SpliceChunk(buf, offset, chunk) ==
    CopyFromSlice(Resize(buf, offset + Len(chunk)), offset, chunk)

(* temp_storage.entry(trans_id).or_insert(PrepareWriteBuffer{[], handle})  *)
EntryOrInsert(trans_id, handle) ==
    IF trans_id \in DOMAIN write_buffer THEN write_buffer[trans_id]
    ELSE [value |-> <<>>, handle |-> handle]

-----------------------------------------------------------------------------
(* The tail of the Write handler: the optional Write Response and the      *)
(* value returned to the dispatcher loop.                                  *)

(* A tail that sends the Write Response whatever need_rsp says.            *)
WriteRespondAlways(gatts_if, conn_id, trans_id, handle, offset, need_rsp, value, closure_ok, sr) ==
    /\ sent' = <<SendCall(gatts_if, conn_id, trans_id,
                          IF closure_ok THEN "Ok" ELSE "Error",
                          GattResponse(handle, offset, value))>>
    /\ result' = IF send_response_ok(sr) /\ closure_ok THEN "ok" ELSE "err"

(* A tail whose Write Response reports Ok whatever the closure returned.   *)
WriteRespondStatusOk(gatts_if, conn_id, trans_id, handle, offset, need_rsp, value, closure_ok, sr) ==
    IF ~need_rsp
    THEN /\ sent' = <<>>
         /\ result' = IF closure_ok THEN "ok" ELSE "err"
    ELSE /\ sent' = <<SendCall(gatts_if, conn_id, trans_id, "Ok",
                               GattResponse(handle, offset, value))>>
         /\ result' = IF send_response_ok(sr) /\ closure_ok THEN "ok" ELSE "err"

WriteRespond(gatts_if, conn_id, trans_id, handle, offset, need_rsp, value, closure_ok, sr) ==
    IF ~need_rsp
    THEN /\ sent' = <<>>
         /\ result' = IF closure_ok THEN "ok" ELSE "err"
    ELSE /\ sent' = <<SendCall(gatts_if, conn_id, trans_id,
                               IF closure_ok THEN "Ok" ELSE "Error",
                               GattResponse(handle, offset, value))>>
         /\ result' = IF send_response_ok(sr) /\ closure_ok THEN "ok" ELSE "err"

(* The tail of the ExecWrite handler.  `handle` is None when no buffer was *)
(* found, and then no response is sent.                                    *)
ExecRespond(gatts_if, conn_id, trans_id, handle, closure_ok, sr) ==
    IF handle = None
    THEN /\ sent' = <<>>
         /\ result' = IF closure_ok THEN "ok" ELSE "err"
    ELSE /\ sent' = <<SendCall(gatts_if, conn_id, trans_id,
                               IF closure_ok THEN "Ok" ELSE "Error", NoResponse)>>
         /\ result' = IF send_response_ok(sr) /\ closure_ok THEN "ok" ELSE "err"

-----------------------------------------------------------------------------
(* GattsEvent::Write                                                       *)

HandleWrite(gatts_if, conn_id, trans_id, handle, offset, need_rsp, is_prep, value, sr) ==
    /\ disp = "idle"
    /\ last_kind' = "write"
    /\ last_event' = <<[gatts_if |-> gatts_if, conn_id |-> conn_id, trans_id |-> trans_id,
                        handle |-> handle, offset |-> offset, need_rsp |-> need_rsp,
                        is_prep |-> is_prep, value |-> value, sr |-> sr]>>
    /\ LET temp_buffer == [EntryOrInsert(trans_id, handle) EXCEPT
                              !.value = SpliceChunk(@, offset, value)]
           spliced == MapPut(write_buffer, trans_id, temp_buffer)
           d == attributes[handle]
           decoded == from_bytes(DescCodec(d), temp_buffer.value)
       IN  IF is_prep
           THEN /\ write_buffer' = spliced
                /\ WriteRespond(gatts_if, conn_id, trans_id, handle, offset,
                                need_rsp, value, TRUE, sr)
                /\ UNCHANGED <<attr_value, updates_len, disp, pending>>
           ELSE IF ~get_attribute_ok(handle) \/ ~decoded.ok
           THEN /\ write_buffer' = spliced
                /\ WriteRespond(gatts_if, conn_id, trans_id, handle, offset,
                                need_rsp, value, FALSE, sr)
                /\ UNCHANGED <<attr_value, updates_len, disp, pending>>
           ELSE IF updates_len[d] < CHANNEL_CAPACITY
           THEN \* AttributeInner::update: store the value, send the update
                /\ attr_value' = [attr_value EXCEPT ![d] = decoded.val]
                /\ updates_len' = [updates_len EXCEPT ![d] = @ + 1]
                /\ write_buffer' = MapRemove(spliced, trans_id)
                /\ WriteRespond(gatts_if, conn_id, trans_id, handle, offset,
                                need_rsp, value, TRUE, sr)
                /\ UNCHANGED <<disp, pending>>
           ELSE \* the value is stored, updates_tx.send blocks on the full channel
                /\ attr_value' = [attr_value EXCEPT ![d] = decoded.val]
                /\ write_buffer' = spliced
                /\ disp' = "blocked"
                /\ pending' = <<[kind |-> "write", stage |-> "update", d |-> d,
                                 gatts_if |-> gatts_if, conn_id |-> conn_id,
                                 trans_id |-> trans_id, handle |-> handle,
                                 offset |-> offset, need_rsp |-> need_rsp,
                                 value |-> value]>>
                /\ sent' = <<>>
                /\ result' = "none"
                /\ UNCHANGED updates_len
    /\ gatts_events' = IF sent' # <<>>
                       THEN MapPut(gatts_events, "ResponseComplete", "send_response")
                       ELSE gatts_events
    /\ UNCHANGED <<gap_events, regVars, attributes, connVars, gapVars, charVars>>

(* GattsEvent::ExecWrite                                                   *)

HandleExecWrite(gatts_if, conn_id, trans_id, canceled, sr) ==
    /\ disp = "idle"
    /\ last_kind' = "exec"
    /\ last_event' = <<[gatts_if |-> gatts_if, conn_id |-> conn_id, trans_id |-> trans_id,
                        canceled |-> canceled, sr |-> sr]>>
    /\ IF trans_id \notin DOMAIN write_buffer
       THEN /\ ExecRespond(gatts_if, conn_id, trans_id, None, FALSE, sr)
            /\ UNCHANGED <<attr_value, updates_len, write_buffer, disp, pending>>
       ELSE LET temp_buffer == write_buffer[trans_id]
                d == attributes[temp_buffer.handle]
                decoded == from_bytes(DescCodec(d), temp_buffer.value)
            IN  IF canceled
                THEN /\ ExecRespond(gatts_if, conn_id, trans_id, temp_buffer.handle, TRUE, sr)
                     /\ UNCHANGED <<attr_value, updates_len, write_buffer, disp, pending>>
                ELSE IF ~get_attribute_ok(temp_buffer.handle) \/ ~decoded.ok
                THEN /\ ExecRespond(gatts_if, conn_id, trans_id, temp_buffer.handle, FALSE, sr)
                     /\ UNCHANGED <<attr_value, updates_len, write_buffer, disp, pending>>
                ELSE IF updates_len[d] < CHANNEL_CAPACITY
                THEN /\ attr_value' = [attr_value EXCEPT ![d] = decoded.val]
                     /\ updates_len' = [updates_len EXCEPT ![d] = @ + 1]
                     /\ write_buffer' = MapRemove(write_buffer, trans_id)
                     /\ ExecRespond(gatts_if, conn_id, trans_id, temp_buffer.handle, TRUE, sr)
                     /\ UNCHANGED <<disp, pending>>
                ELSE /\ attr_value' = [attr_value EXCEPT ![d] = decoded.val]
                     /\ disp' = "blocked"
                     /\ pending' = <<[kind |-> "exec", stage |-> "update", d |-> d,
                                      gatts_if |-> gatts_if, conn_id |-> conn_id,
                                      trans_id |-> trans_id,
                                      handle |-> temp_buffer.handle]>>
                     /\ sent' = <<>>
                     /\ result' = "none"
                     /\ UNCHANGED <<updates_len, write_buffer>>
    /\ gatts_events' = IF sent' # <<>>
                       THEN MapPut(gatts_events, "ResponseComplete", "send_response")
                       ELSE gatts_events
    /\ UNCHANGED <<gap_events, regVars, attributes, connVars, gapVars, charVars>>

(* The dispatcher leaves updates_tx.send once the channel has room: the    *)
(* rest of the Write or ExecWrite handler runs.                            *)

ResumeUpdate(sr) ==
    /\ disp = "blocked"
    /\ pending # <<>>
    /\ pending[1].stage = "update"
    /\ LET p == pending[1] IN
       /\ updates_len[p.d] < CHANNEL_CAPACITY
       /\ updates_len' = [updates_len EXCEPT ![p.d] = @ + 1]
       /\ write_buffer' = MapRemove(write_buffer, p.trans_id)
       /\ IF p.kind = "write"
          THEN WriteRespond(p.gatts_if, p.conn_id, p.trans_id, p.handle, p.offset,
                            p.need_rsp, p.value, TRUE, sr)
          ELSE ExecRespond(p.gatts_if, p.conn_id, p.trans_id, p.handle, TRUE, sr)
    /\ disp' = "idle"
    /\ pending' = <<>>
    /\ gatts_events' = IF sent' # <<>>
                       THEN MapPut(gatts_events, "ResponseComplete", "send_response")
                       ELSE gatts_events
    /\ UNCHANGED <<gap_events, regVars, attributes, attr_value, last_kind, last_event, connVars, gapVars,
                   charVars>>

(* An application thread receives from an attribute's updates_rx.          *)
UpdatesRecv(d) ==
    /\ updates_len[d] > 0
    /\ updates_len' = [updates_len EXCEPT ![d] = @ - 1]
    /\ UNCHANGED <<routerVars, regVars, attributes, attr_value, write_buffer, connVars, gapVars,
                   dispVars, charVars>>

-----------------------------------------------------------------------------
(* GattsEvent::Read                                                        *)

(* The whole MTU taken as room for data, the opcode byte not subtracted.   *)
effective_mtu_whole(mtu) == mtu

(* mtu.saturating_sub(1)                                                   *)
effective_mtu_for_data(mtu) == IF mtu = 0 THEN 0 ELSE mtu - 1

(* offset + effective_mtu_for_data in u16: an overflow panics when the     *)
(* build checks overflows and wraps when it does not.                      *)
AddOverflows(a, b) == a + b >= U16_MODULUS

(* (offset + effective_mtu_for_data).min(bytes.len() as u16)               *)
(*                                  .min(ESP_GATT_MAX_ATTR_LEN as u16)     *)
end_index(offset, mtu, len) ==
    Min(Min((offset + effective_mtu_for_data(mtu)) % U16_MODULUS, len % U16_MODULUS),
        ESP_GATT_MAX_ATTR_LEN % U16_MODULUS)

(* &bytes[offset as usize..end_index] panics when offset > end_index or    *)
(* end_index > bytes.len().                                                *)
SliceInRange(from, to, len) == from <= to /\ to <= len

(* The closure of the Read handler: "err", "panic" or "ok" with the slice. *)
ReadPrepare(gatts_if, conn_id, handle, offset, overflow_checks) ==
    IF ~get_attribute_ok(handle) THEN [r |-> "err", value |-> <<>>]
    ELSE IF gatts_if \notin DOMAIN apps THEN [r |-> "err", value |-> <<>>]
    ELSE IF conn_id \notin DOMAIN apps[gatts_if] THEN [r |-> "err", value |-> <<>>]
    ELSE IF apps[gatts_if][conn_id] = None THEN [r |-> "err", value |-> <<>>]
    ELSE LET bytes == AttrBytes(attributes[handle])
             mtu == apps[gatts_if][conn_id]
             e == end_index(offset, mtu, Len(bytes))
         IN  IF overflow_checks /\ AddOverflows(offset, effective_mtu_for_data(mtu))
             THEN [r |-> "panic", value |-> <<>>]
             ELSE IF ~SliceInRange(offset, e, Len(bytes))
             THEN [r |-> "panic", value |-> <<>>]
             ELSE [r |-> "ok", value |-> SubSeq(bytes, offset + 1, e)]

HandleRead(gatts_if, conn_id, trans_id, handle, offset, need_rsp, overflow_checks, sr) ==
    /\ disp = "idle"
    /\ gatts_events["Read"] = "dispatcher"
    /\ last_kind' = "read"
    /\ last_event' = <<[gatts_if |-> gatts_if, conn_id |-> conn_id, trans_id |-> trans_id,
                        handle |-> handle, offset |-> offset, need_rsp |-> need_rsp,
                        overflow_checks |-> overflow_checks, sr |-> sr]>>
    /\ IF ~need_rsp
       THEN /\ sent' = <<>>
            /\ result' = "ok"
            /\ UNCHANGED disp
       ELSE LET p == ReadPrepare(gatts_if, conn_id, handle, offset, overflow_checks) IN
            CASE p.r = "err" ->
                    /\ sent' = <<SendCall(gatts_if, conn_id, trans_id, "Error", NoResponse)>>
                    /\ result' = "err"
                    /\ UNCHANGED disp
              [] p.r = "panic" ->
                    \* the dispatcher thread unwinds: nothing is sent
                    /\ sent' = <<>>
                    /\ result' = "panic"
                    /\ disp' = "dead"
              [] p.r = "ok" ->
                    /\ sent' = <<SendCall(gatts_if, conn_id, trans_id, "Ok",
                                          GattResponse(handle, offset, p.value))>>
                    /\ result' = IF send_response_ok(sr) THEN "ok" ELSE "err"
                    /\ UNCHANGED disp
    /\ gatts_events' = IF sent' # <<>>
                       THEN MapPut(gatts_events, "ResponseComplete", "send_response")
                       ELSE gatts_events
    /\ UNCHANGED <<gap_events, regVars, gattsVars, connVars, gapVars, pending, charVars>>

-----------------------------------------------------------------------------
(* PeerConnected / PeerDisconnected / Mtu                                  *)

(* gap_connections_tx.send(status)?; connections_tx.send(status)?; Ok(())  *)
(* Both channels are bounded(1) and send blocks while the channel is full. *)
ConnectionStatus(ev, gatts_if, conn_id) ==
    [kind |-> ev, gatts_if |-> gatts_if, conn_id |-> conn_id]

PublishStatus(ev, gatts_if, conn_id) ==
    IF gap_conn_len >= CHANNEL_CAPACITY
    THEN /\ disp' = "blocked"
         /\ pending' = <<[kind |-> ev, stage |-> "gap_send", gatts_if |-> gatts_if,
                          conn_id |-> conn_id]>>
         /\ result' = "none"
         /\ UNCHANGED <<gap_conn_len, gap_status, conn_len>>
    ELSE /\ gap_conn_len' = gap_conn_len + 1
         /\ gap_status' = <<ConnectionStatus(ev, gatts_if, conn_id)>>
         /\ IF conn_len >= CHANNEL_CAPACITY
            THEN /\ disp' = "blocked"
                 /\ pending' = <<[kind |-> ev, stage |-> "conn_send",
                                  gatts_if |-> gatts_if, conn_id |-> conn_id]>>
                 /\ result' = "none"
                 /\ UNCHANGED conn_len
            ELSE /\ conn_len' = conn_len + 1
                 /\ result' = "ok"
                 /\ UNCHANGED <<disp, pending>>

HandlePeerConnected(gatts_if, conn_id) ==
    /\ disp = "idle"
    /\ last_kind' = "connected"
    /\ last_event' = <<[gatts_if |-> gatts_if, conn_id |-> conn_id]>>
    /\ sent' = <<>>
    /\ IF gatts_if \notin DOMAIN apps
       THEN /\ result' = "err"
            /\ UNCHANGED <<connVars, disp, pending>>
       ELSE /\ apps' = [apps EXCEPT ![gatts_if] = MapPut(@, conn_id, None)]
            /\ PublishStatus("connected", gatts_if, conn_id)
    /\ UNCHANGED <<routerVars, regVars, gattsVars, gapVars, charVars>>

(* A handler that publishes Disconnected and leaves the connection in the  *)
(* application's map.                                                      *)
HandlePeerDisconnectedKeeps(gatts_if, conn_id) ==
    /\ disp = "idle"
    /\ last_kind' = "disconnected"
    /\ last_event' = <<[gatts_if |-> gatts_if, conn_id |-> conn_id]>>
    /\ sent' = <<>>
    /\ IF gatts_if \notin DOMAIN apps \/ conn_id \notin DOMAIN apps[gatts_if]
       THEN /\ result' = "err"
            /\ UNCHANGED <<connVars, disp, pending>>
       ELSE /\ apps' = apps
            /\ PublishStatus("disconnected", gatts_if, conn_id)
    /\ UNCHANGED <<routerVars, regVars, gattsVars, gapVars, charVars>>

HandlePeerDisconnected(gatts_if, conn_id) ==
    /\ disp = "idle"
    /\ last_kind' = "disconnected"
    /\ last_event' = <<[gatts_if |-> gatts_if, conn_id |-> conn_id]>>
    /\ sent' = <<>>
    /\ IF gatts_if \notin DOMAIN apps \/ conn_id \notin DOMAIN apps[gatts_if]
       THEN /\ result' = "err"
            /\ UNCHANGED <<connVars, disp, pending>>
       ELSE /\ apps' = [apps EXCEPT ![gatts_if] = MapRemove(@, conn_id)]
            /\ PublishStatus("disconnected", gatts_if, conn_id)
    /\ UNCHANGED <<routerVars, regVars, gattsVars, gapVars, charVars>>

HandleMtu(gatts_if, conn_id, mtu) ==
    /\ disp = "idle"
    /\ last_kind' = "mtu"
    /\ last_event' = <<>>
    /\ sent' = <<>>
    /\ IF gatts_if \notin DOMAIN apps \/ conn_id \notin DOMAIN apps[gatts_if]
       THEN /\ result' = "err"
            /\ UNCHANGED apps
       ELSE /\ apps' = [apps EXCEPT ![gatts_if][conn_id] = mtu]
            /\ result' = "ok"
    /\ UNCHANGED <<routerVars, regVars, gattsVars, gap_conn_len, gap_status, conn_len, gapVars, disp, pending,
                   charVars>>

(* The dispatcher leaves a blocked send of a connection status.            *)
ResumeSend ==
    /\ disp = "blocked"
    /\ pending # <<>>
    /\ pending[1].stage \in {"gap_send", "conn_send"}
    /\ IF pending[1].stage = "gap_send"
       THEN /\ gap_conn_len < CHANNEL_CAPACITY
            /\ gap_conn_len' = gap_conn_len + 1
            /\ gap_status' = <<ConnectionStatus(pending[1].kind, pending[1].gatts_if,
                                                pending[1].conn_id)>>
            /\ IF conn_len >= CHANNEL_CAPACITY
               THEN /\ pending' = <<[pending[1] EXCEPT !.stage = "conn_send"]>>
                    /\ UNCHANGED <<conn_len, disp, result>>
               ELSE /\ conn_len' = conn_len + 1
                    /\ disp' = "idle"
                    /\ pending' = <<>>
                    /\ result' = "ok"
       ELSE /\ conn_len < CHANNEL_CAPACITY
            /\ conn_len' = conn_len + 1
            /\ disp' = "idle"
            /\ pending' = <<>>
            /\ result' = "ok"
            /\ UNCHANGED <<gap_conn_len, gap_status>>
    /\ UNCHANGED <<routerVars, regVars, gattsVars, apps, gapVars, last_kind, last_event, sent, charVars>>

(* An application thread receives from connections_rx.                     *)
ConnectionsRecv ==
    /\ conn_len > 0
    /\ conn_len' = conn_len - 1
    /\ UNCHANGED <<routerVars, regVars, gattsVars, apps, gap_conn_len, gap_status, gapVars, dispVars, charVars>>

(* GapInner::check_if_need_start_advertising                               *)
current_connection ==
    LET RECURSIVE Sum(_)
        Sum(S) == IF S = {} THEN 0
                  ELSE LET i == CHOOSE x \in S : TRUE
                       IN  Cardinality(DOMAIN apps[i]) + Sum(S \ {i})
    IN  Sum(DOMAIN apps)

(* An iteration that advertises while the count is at most the maximum.    *)
GapLoopIterAtMost ==
    /\ gap_conn_len > 0
    /\ gap_conn_len' = gap_conn_len - 1
    /\ gap_status' = <<>>
    /\ gap_seen' = gap_status
    /\ gap_last' = IF max_connections = None THEN "error"
                   ELSE IF current_connection <= max_connections THEN "advertise"
                   ELSE "skip"
    /\ gap_events' = IF gap_last' = "advertise"
                     THEN gap_events \cup {"AdvertisingStarted"}
                     ELSE gap_events
    /\ UNCHANGED <<gatts_events, regVars, gattsVars, apps, conn_len, max_connections, dispVars, charVars>>

(* One iteration of the auto-advertising loop: "advertise" is a call of    *)
(* start_advertising, "skip" and "error" are iterations without one.       *)
GapLoopIter ==
    /\ gap_conn_len > 0
    /\ gap_conn_len' = gap_conn_len - 1
    /\ gap_status' = <<>>
    /\ gap_seen' = gap_status
    /\ gap_last' = IF max_connections = None THEN "error"
                   ELSE IF current_connection < max_connections THEN "advertise"
                   ELSE "skip"
    /\ gap_events' = IF gap_last' = "advertise"
                     THEN gap_events \cup {"AdvertisingStarted"}
                     ELSE gap_events
    /\ UNCHANGED <<gatts_events, regVars, gattsVars, apps, conn_len, max_connections, dispVars, charVars>>

(* Gap::set_config: the application replaces the configuration.           *)
SetConfig(max) ==
    /\ max_connections' = max
    /\ UNCHANGED <<routerVars, regVars, gattsVars, connVars, gap_last, gap_seen, dispVars, charVars>>

-----------------------------------------------------------------------------
(* The auto-advertising thread of Gap::init_callbacks, step by step, and   *)
(* the drop of the GATT server.  adv.gatts is the application's Gatts      *)
(* handle, adv.pc the position of the thread, adv.late_calls the calls of  *)
(* start_advertising issued after GattsInner was dropped.                  *)

(* GattsInner is dropped with its last Arc: the application has dropped    *)
(* its handle, and neither the thread (inside                              *)
(* check_if_need_start_advertising) nor the dispatcher (inside a handler)  *)
(* holds an upgraded one.  Its gap_connections_tx is the only sender of    *)
(* the channel the thread receives from.                                   *)
GattsDropped ==
    /\ adv.gatts = "dropped"
    /\ adv.pc # "counting"
    /\ disp # "blocked"

(* The application drops its Gatts.                                        *)
DropGatts ==
    /\ adv.gatts = "held"
    /\ adv' = [adv EXCEPT !.gatts = "dropped"]
    /\ UNCHANGED <<gatts_events, op_last, app_interface, service_handle,
                   service_characteristics, char_handle, desc_handle, desc_characteristic,
                   wait, attr, global_len, callback, desc_replies, upd, gattsVars, apps,
                   conn_len, max_connections, dispVars, charVars, gap_conn_len, gap_status, gap_events, gap_last, gap_seen>>

(* `for event in connection_rx` that waits on although every sender of the *)
(* channel is gone.                                                        *)
AdvRecvKeepsWaiting ==
    /\ adv.pc = "recv"
    /\ gap_conn_len > 0
    /\ gap_conn_len' = gap_conn_len - 1
    /\ gap_status' = <<>>
    /\ gap_seen' = gap_status
    /\ adv' = [adv EXCEPT !.pc = "event"]
    /\ UNCHANGED <<gatts_events, op_last, app_interface, service_handle,
                   service_characteristics, char_handle, desc_handle, desc_characteristic,
                   wait, attr, global_len, callback, desc_replies, upd, gattsVars, apps,
                   conn_len, max_connections, dispVars, charVars, gap_events, gap_last>>

(* `for event in connection_rx`: the next status is taken; the loop ends   *)
(* when the channel is empty and its sender has been dropped.              *)
AdvRecv ==
    /\ adv.pc = "recv"
    /\ IF gap_conn_len > 0
       THEN /\ gap_conn_len' = gap_conn_len - 1
            /\ gap_status' = <<>>
            /\ gap_seen' = gap_status
            /\ adv' = [adv EXCEPT !.pc = "event"]
       ELSE /\ GattsDropped
            /\ adv' = [adv EXCEPT !.pc = "exited"]
            /\ UNCHANGED <<gap_conn_len, gap_status, gap_seen>>
    /\ UNCHANGED <<gatts_events, op_last, app_interface, service_handle,
                   service_characteristics, char_handle, desc_handle, desc_characteristic,
                   wait, attr, global_len, callback, desc_replies, upd, gattsVars, apps,
                   conn_len, max_connections, dispVars, charVars, gap_events, gap_last>>

(* `if gap.gatts.upgrade().is_none() { break }`                            *)
AdvUpgrade ==
    /\ adv.pc = "event"
    /\ adv' = [adv EXCEPT !.pc = IF GattsDropped THEN "exited" ELSE "check"]
    /\ UNCHANGED <<gatts_events, op_last, app_interface, service_handle,
                   service_characteristics, char_handle, desc_handle, desc_characteristic,
                   wait, attr, global_len, callback, desc_replies, upd, gattsVars, apps,
                   conn_len, max_connections, dispVars, charVars, gap_conn_len, gap_status, gap_events, gap_last, gap_seen>>

(* check_if_need_start_advertising, its upgrade: the Err of a failed one   *)
(* makes the loop `continue`.                                              *)
AdvCheckUpgrade ==
    /\ adv.pc = "check"
    /\ adv' = [adv EXCEPT !.pc = IF GattsDropped THEN "recv" ELSE "counting"]
    /\ gap_last' = IF GattsDropped THEN "error" ELSE gap_last
    /\ UNCHANGED <<gatts_events, op_last, app_interface, service_handle,
                   service_characteristics, char_handle, desc_handle, desc_characteristic,
                   wait, attr, global_len, callback, desc_replies, upd, gattsVars, apps,
                   conn_len, max_connections, dispVars, charVars, gap_conn_len, gap_status, gap_events, gap_seen>>

(* check_if_need_start_advertising returns and drops its Arc.              *)
AdvCheckReturn ==
    /\ adv.pc = "counting"
    /\ IF max_connections = None
       THEN /\ adv' = [adv EXCEPT !.pc = "recv"]
            /\ gap_last' = "error"
       ELSE IF current_connection < max_connections
       THEN /\ adv' = [adv EXCEPT !.pc = "advertise"]
            /\ UNCHANGED gap_last
       ELSE /\ adv' = [adv EXCEPT !.pc = "recv"]
            /\ gap_last' = "skip"
    /\ UNCHANGED <<gatts_events, op_last, app_interface, service_handle,
                   service_characteristics, char_handle, desc_handle, desc_characteristic,
                   wait, attr, global_len, callback, desc_replies, upd, gattsVars, apps,
                   conn_len, max_connections, dispVars, charVars, gap_conn_len, gap_status, gap_events, gap_seen>>

(* `gap.start_advertising()` of the iteration.                             *)
AdvStartAdvertising ==
    /\ adv.pc = "advertise"
    /\ gap_last' = "advertise"
    /\ gap_events' = gap_events \cup {"AdvertisingStarted"}
    /\ adv' = [adv EXCEPT !.pc = "recv",
                          !.late_calls = IF GattsDropped THEN @ + 1 ELSE @]
    /\ UNCHANGED <<gatts_events, op_last, app_interface, service_handle,
                   service_characteristics, char_handle, desc_handle, desc_characteristic,
                   wait, attr, global_len, callback, desc_replies, upd, gattsVars, apps,
                   conn_len, max_connections, dispVars, charVars, gap_conn_len, gap_status,
                   gap_seen>>

-----------------------------------------------------------------------------
(* Characteristic::update_value and CharacteristicInner::handle_value_update *)
(* for the characteristic of application CharInterface.                    *)

(* bincode::serde::encode_to_vec of a Vec<u8> shorter than 251 bytes: the  *)
(* length as one byte, then the bytes.                                     *)
encode_to_vec(value) == <<Len(value)>> \o value

(* An end index that never truncates: the whole encoded value.             *)
data_end_index_whole(len, mtu) == len

(* notify_data.len().min(mtu.into())                                       *)
data_end_index(len, mtu) == Min(len, mtu)

(* connections.values().map(|connection| ...).collect::<Result<()>>():     *)
(* the connections are visited in the map's iteration order `order`; the   *)
(* closure runs for a connection only if it returned Ok for every earlier  *)
(* one.  The result is the list of host indicate calls, each with what     *)
(* came back for it, and whether every closure returned Ok.                *)
RECURSIVE IndicationRound(_, _, _, _)
IndicationRound(connections, order, outcome, notify_data) ==
    IF order = <<>> THEN [calls |-> <<>>, ok |-> TRUE]
    ELSE LET c == Head(order)
             mtu == connections[c]
         IN  IF mtu = None THEN [calls |-> <<>>, ok |-> FALSE]
             ELSE LET call == [gatts_if |-> CharInterface, conn_id |-> c,
                               handle |-> CharHandle,
                               data |-> SubSeq(notify_data, 1,
                                               data_end_index(Len(notify_data), mtu)),
                               outcome |-> outcome[c]]
                      rest == IndicationRound(connections, Tail(order), outcome,
                                              notify_data)
                  IN  IF outcome[c] = "confirmed"
                      THEN [calls |-> <<call>> \o rest.calls, ok |-> rest.ok]
                      ELSE [calls |-> <<call>>, ok |-> FALSE]

(* What handle_value_update returns once the round is over: `results` is   *)
(* dropped and Ok(()) is returned.                                         *)
handle_value_update_result(round_ok) == "ok"

Orders(S) == {o \in [1..Cardinality(S) -> S] : \A i, j \in 1..Cardinality(S) :
                                                    o[i] = o[j] => i = j}

(* The part of handle_value_update after updates_tx.send.                  *)
FinishValueUpdate(order, outcome) ==
    LET round == IndicationRound(apps[CharInterface], order, outcome,
                                 encode_to_vec(char_value'))
    IN  /\ gatts_events' = MapPut(gatts_events, "Confirm", "indicate")
        /\ indicated' = round.calls
        /\ uv_result' = handle_value_update_result(round.ok)

UpdateValue(value, order, outcome) ==
    /\ uv_result # "blocked"
    /\ char_value' = value
    /\ IF char_updates_len >= CHANNEL_CAPACITY
       THEN \* the value is stored, updates_tx.send blocks on the full channel
            /\ uv_result' = "blocked"
            /\ indicated' = <<>>
            /\ UNCHANGED <<char_updates_len, gatts_events>>
       ELSE /\ char_updates_len' = char_updates_len + 1
            /\ FinishValueUpdate(order, outcome)
    /\ UNCHANGED <<gap_events, regVars, gattsVars, connVars, gapVars, dispVars>>

ResumeUpdateValue(order, outcome) ==
    /\ uv_result = "blocked"
    /\ char_updates_len < CHANNEL_CAPACITY
    /\ char_updates_len' = char_updates_len + 1
    /\ UNCHANGED char_value
    /\ FinishValueUpdate(order, outcome)
    /\ UNCHANGED <<gap_events, regVars, gattsVars, connVars, gapVars, dispVars>>

(* An application thread receives from the characteristic's updates_rx.    *)
CharUpdatesRecv ==
    /\ char_updates_len > 0
    /\ char_updates_len' = char_updates_len - 1
    /\ UNCHANGED <<routerVars, regVars, gattsVars, connVars, gapVars, dispVars, char_value, indicated,
                   uv_result>>

-----------------------------------------------------------------------------
(* Characteristic::update_value lock by lock, run by the threads of        *)
(* Threads.  upd.locks[t] are the guards thread t holds, in the order it   *)
(* took them; upd.rx[t] is the bounded(1) channel handle_value_update      *)
(* created for t; upd.confirms are the indications the peer has yet to     *)
(* confirm, named by the thread that sent them.                            *)

(* `self.0.value.write()`: the guard lives until update_value returns.     *)
UvLockValue(t) ==
    /\ upd.pc[t] = "idle"
    /\ upd.result[t] = "none"
    /\ upd' = [upd EXCEPT !.pc[t] = "value", !.locks[t] = <<"value">>]
    /\ UNCHANGED <<gattsVars, connVars, gapVars, dispVars, charVars, gap_events, op_last,
                   app_interface, service_handle, service_characteristics, char_handle,
                   desc_handle, desc_characteristic, wait, attr, global_len, callback,
                   desc_replies, adv, gatts_events>>

(* `app.connections.read()`: a shared guard that lives until               *)
(* handle_value_update returns.                                            *)
UvLockConnections(t) ==
    /\ upd.pc[t] = "value"
    /\ upd' = [upd EXCEPT !.pc[t] = "connections", !.locks[t] = Append(@, "connections")]
    /\ UNCHANGED <<gattsVars, connVars, gapVars, dispVars, charVars, gap_events, op_last,
                   app_interface, service_handle, service_characteristics, char_handle,
                   desc_handle, desc_characteristic, wait, attr, global_len, callback,
                   desc_replies, adv, gatts_events>>

(* `gatts.gatts_events.write()`: exclusive.                                *)
UvLockRouter(t) ==
    /\ upd.pc[t] = "connections"
    /\ \A u \in Threads : upd.pc[u] # "router"
    /\ upd' = [upd EXCEPT !.pc[t] = "router", !.locks[t] = Append(@, "router")]
    /\ UNCHANGED <<gattsVars, connVars, gapVars, dispVars, charVars, gap_events, op_last,
                   app_interface, service_handle, service_characteristics, char_handle,
                   desc_handle, desc_characteristic, wait, attr, global_len, callback,
                   desc_replies, adv, gatts_events>>

(* `.insert(callback_key, tx)`: the sender that was under Confirm is       *)
(* dropped; the guard of the router is a temporary and is released.        *)
UvInsertSender(t) ==
    /\ upd.pc[t] = "router"
    /\ gatts_events' = MapPut(gatts_events, "Confirm", t)
    /\ upd' = [upd EXCEPT !.pc[t] = "inserted", !.locks[t] = <<"value", "connections">>]
    /\ UNCHANGED <<gattsVars, connVars, gapVars, dispVars, charVars, gap_events, op_last,
                   app_interface, service_handle, service_characteristics, char_handle,
                   desc_handle, desc_characteristic, wait, attr, global_len, callback,
                   desc_replies, adv>>

(* `gatts.gatts.indicate(..)` for the one connection.                      *)
UvIndicate(t) ==
    /\ upd.pc[t] = "inserted"
    /\ upd' = [upd EXCEPT !.pc[t] = "waiting", !.confirms = @ \cup {t}]
    /\ UNCHANGED <<gattsVars, connVars, gapVars, dispVars, charVars, gap_events, op_last,
                   app_interface, service_handle, service_characteristics, char_handle,
                   desc_handle, desc_characteristic, wait, attr, global_len, callback,
                   desc_replies, adv, gatts_events>>

(* The callback is called with the Confirm of the indication thread r      *)
(* sent: it is sent on the sender found under Confirm.                     *)
ConfirmArrives(r) ==
    /\ r \in upd.confirms
    /\ "Confirm" \in DOMAIN gatts_events
    /\ gatts_events["Confirm"] \in Threads
    /\ LET o == gatts_events["Confirm"] IN
       /\ Len(upd.rx[o]) < CHANNEL_CAPACITY
       /\ upd' = [upd EXCEPT !.confirms = @ \ {r}, !.rx[o] = Append(@, r)]
    /\ UNCHANGED <<gattsVars, connVars, gapVars, dispVars, charVars, gap_events, op_last,
                   app_interface, service_handle, service_characteristics, char_handle,
                   desc_handle, desc_characteristic, wait, attr, global_len, callback,
                   desc_replies, adv, gatts_events>>

(* `rx.recv_timeout(5 s)` returns: with the Confirm in the channel, which  *)
(* is accepted when it names the thread's own characteristic, or with Err  *)
(* when the channel is empty and its sender was replaced in the router.    *)
UvRecv(t) ==
    /\ upd.pc[t] = "waiting"
    /\ IF upd.rx[t] # <<>>
       THEN upd' = [upd EXCEPT !.pc[t] = "done", !.rx[t] = Tail(@),
                               !.result[t] = IF upd.rx[t][1] = t THEN "confirmed"
                                             ELSE "unexpected"]
       ELSE /\ gatts_events["Confirm"] # t
            /\ upd' = [upd EXCEPT !.pc[t] = "done", !.result[t] = "timeout"]
    /\ UNCHANGED <<gattsVars, connVars, gapVars, dispVars, charVars, gap_events, op_last,
                   app_interface, service_handle, service_characteristics, char_handle,
                   desc_handle, desc_characteristic, wait, attr, global_len, callback,
                   desc_replies, adv, gatts_events>>

(* handle_value_update and update_value return; the guards are dropped.    *)
UvReturn(t) ==
    /\ upd.pc[t] = "done"
    /\ upd' = [upd EXCEPT !.pc[t] = "idle", !.locks[t] = <<>>]
    /\ UNCHANGED <<gattsVars, connVars, gapVars, dispVars, charVars, gap_events, op_last,
                   app_interface, service_handle, service_characteristics, char_handle,
                   desc_handle, desc_characteristic, wait, attr, global_len, callback,
                   desc_replies, adv, gatts_events>>

NextOverlap ==
    \/ \E t \in Threads : UvLockValue(t)
    \/ \E t \in Threads : UvLockConnections(t)
    \/ \E t \in Threads : UvLockRouter(t)
    \/ \E t \in Threads : UvInsertSender(t)
    \/ \E t \in Threads : UvIndicate(t)
    \/ \E r \in Threads : ConfirmArrives(r)
    \/ \E t \in Threads : UvRecv(t)
    \/ \E t \in Threads : UvReturn(t)

SpecOverlap == InitIndicate /\ [][NextOverlap]_vars

-----------------------------------------------------------------------------
(* Registration and the other correlated operations.  Each installs a      *)
(* sender for its reply-kind in the router, calls the host, and waits up   *)
(* to five seconds for the reply.  `host` is what the host call returned,  *)
(* `reply` what came back: the matching event with status Ok ("ok"), with  *)
(* another status ("status"), an event of the kind that names another      *)
(* object ("other"), or nothing in time ("timeout").                       *)

HostCalls == {"ok", "err"}
Replies == {"ok", "status", "other", "timeout"}
ServiceHandles == {1}
AttrHandles == {2, 3, 4}

(* CharacteristicConfig.notifiable || CharacteristicConfig.indicateable    *)
CharNotifies(c) == c = "cIndicate"

(* DescriptorConfig.uuid of the descriptor objects; 10498 = 0x2902.        *)
CCCD_UUID == 10498
DescUuid(d) == IF d = "dBytes" THEN 1 ELSE 2

(* What is kept of the operation that returned last: the operation, its  *)
(* reply-kind, the object it was called on, what the host call returned    *)
(* and what the operation returned.                                        *)
Returned(op, kind, obj, host, reply, res) ==
    [op |-> op, kind |-> kind, obj |-> obj, host |-> host, result |-> res]

(* The handles the host has assigned in the service's attribute table.     *)
AssignedHandles ==
    DOMAIN service_characteristics \cup DOMAIN attributes
        \cup {desc_handle[d] : d \in Descs} \cup {char_handle[c] : c \in Chars}

(* The server before anything is registered: Gatts::new and Gap::new.      *)
InitEmptyServer ==
    /\ attributes = <<>>
    /\ attr_value = [d \in Descs |-> IF d = "dBytes" THEN <<>> ELSE FALSE]
    /\ updates_len = [d \in Descs |-> 0]
    /\ write_buffer = <<>>
    /\ apps = <<>>
    /\ gap_conn_len = 0
    /\ gap_status = <<>>
    /\ conn_len = 0
    /\ max_connections = 1
    /\ gap_last = "none"
    /\ gap_seen = <<>>
    /\ disp = "idle"
    /\ pending = <<>>
    /\ last_kind = "none"
    /\ last_event = <<>>
    /\ sent = <<>>
    /\ result = "none"
    /\ char_value = <<>>
    /\ char_updates_len = 0
    /\ indicated = <<>>
    /\ uv_result = "none"

InitRegister == InitEmptyServer /\ InitRegistrationWith({})

(* Gatts::register_app: App::register_bluedroid, then the application is   *)
(* inserted under its interface.  A ServiceRegistered event for another    *)
(* app_id is skipped and the wait goes on.                                 *)
RegisterApp(interface, host, reply) ==
    /\ IF host = "err"
       THEN \* `register_app(..)?` returns before the sender is removed
            /\ gatts_events' = MapPut(gatts_events, "ServiceRegistered", "register_app")
            /\ op_last' = <<Returned("register_app", "ServiceRegistered", "app", host,
                                     reply, "err")>>
            /\ UNCHANGED <<app_interface, apps>>
       ELSE /\ gatts_events' = MapRemove(gatts_events, "ServiceRegistered")
            /\ IF reply = "ok" /\ app_interface = None
               THEN /\ app_interface' = interface
                    \* apps.insert(interface, app).is_some() => Err, after the insert
                    /\ apps' = MapPut(apps, interface, <<>>)
                    /\ op_last' = <<Returned("register_app", "ServiceRegistered", "app",
                                             host, reply,
                                             IF interface \in DOMAIN apps THEN "err"
                                             ELSE "ok")>>
               ELSE /\ op_last' = <<Returned("register_app", "ServiceRegistered", "app",
                                             host, reply, "err")>>
                    /\ UNCHANGED <<app_interface, apps>>
    /\ UNCHANGED <<gattsVars, gap_conn_len, gap_status, conn_len, gapVars, dispVars,
                   charVars, gap_events, service_handle, service_characteristics,
                   char_handle, desc_handle, desc_characteristic, wait, attr, global_len, callback, desc_replies, adv, upd>>

(* Service::new: register_bluedroid, configure_read_events (the sender of  *)
(* the service's own thread replaces the one under Read), register_in_parent. *)
ServiceCreate(host, reply, handle) ==
    /\ service_handle = None
    /\ IF app_interface = None
       THEN /\ op_last' = <<Returned("create_service", "ServiceCreated", "service",
                                     "none", "none", "err")>>
            /\ UNCHANGED <<gatts_events, service_handle>>
       ELSE IF host = "ok" /\ reply = "ok"
       THEN /\ service_handle' = handle
            /\ gatts_events' = MapPut(MapPut(gatts_events, "ServiceCreated",
                                             "create_service"), "Read", "service")
            /\ op_last' = <<Returned("create_service", "ServiceCreated", "service",
                                     host, reply, "ok")>>
       ELSE /\ gatts_events' = MapPut(gatts_events, "ServiceCreated", "create_service")
            /\ op_last' = <<Returned("create_service", "ServiceCreated", "service",
                                     host, reply, "err")>>
            /\ UNCHANGED service_handle
    /\ UNCHANGED <<gattsVars, connVars, gapVars, dispVars, charVars, gap_events,
                   app_interface, service_characteristics, char_handle, desc_handle,
                   desc_characteristic, wait, attr, global_len, callback, desc_replies, adv, upd>>

(* A start that returns Ok whenever the host call was accepted, whatever   *)
(* the reply.                                                              *)
ServiceStartAnyReply(host, reply) ==
    /\ service_handle # None
    /\ gatts_events' = MapPut(gatts_events, "ServiceStarted", "start_service")
    /\ op_last' = <<Returned("start_service", "ServiceStarted", "service", host, reply,
                             IF host = "ok" THEN "ok" ELSE "err")>>
    /\ UNCHANGED <<gattsVars, connVars, gapVars, dispVars, charVars, gap_events,
                   app_interface, service_handle, service_characteristics, char_handle,
                   desc_handle, desc_characteristic, wait, attr, global_len, callback, desc_replies, adv, upd>>

(* Service::start                                                          *)
ServiceStart(host, reply) ==
    /\ service_handle # None
    /\ gatts_events' = MapPut(gatts_events, "ServiceStarted", "start_service")
    /\ op_last' = <<Returned("start_service", "ServiceStarted", "service", host, reply,
                             IF host = "ok" /\ reply = "ok" THEN "ok" ELSE "err")>>
    /\ UNCHANGED <<gattsVars, connVars, gapVars, dispVars, charVars, gap_events,
                   app_interface, service_handle, service_characteristics, char_handle,
                   desc_handle, desc_characteristic, wait, attr, global_len, callback, desc_replies, adv, upd>>

(* Service::stop                                                           *)
ServiceStop(host, reply) ==
    /\ service_handle # None
    /\ gatts_events' = MapPut(gatts_events, "ServiceStopped", "stop_service")
    /\ op_last' = <<Returned("stop_service", "ServiceStopped", "service", host, reply,
                             IF host = "ok" /\ reply = "ok" THEN "ok" ELSE "err")>>
    /\ UNCHANGED <<gattsVars, connVars, gapVars, dispVars, charVars, gap_events,
                   app_interface, service_handle, service_characteristics, char_handle,
                   desc_handle, desc_characteristic, wait, attr, global_len, callback, desc_replies, adv, upd>>

(* The replies to add_characteristic: those of Replies, "other" being a    *)
(* CharacteristicAdded with another char_uuid, and "other_service", a      *)
(* CharacteristicAdded with status Ok and the configured char_uuid whose   *)
(* service_handle is not the handle of the service registered on.          *)
CharReplies == Replies \cup {"other_service"}
OtherServiceHandle == 9
ReplyServiceHandle(reply) ==
    IF reply = "other_service" THEN OtherServiceHandle ELSE service_handle

(* `if service_handle != service_handle`: the pattern binding of the reply *)
(* shadows the service's handle, the field is compared with itself.        *)
service_handle_differs(reply_service_handle) ==
    reply_service_handle # reply_service_handle

(* Characteristic::new: register_bluedroid_characteristic, then            *)
(* register_bluedroid_descriptors (one add_descriptor host call for a      *)
(* notifiable or indicateable characteristic, `desc_host` is what it       *)
(* returned; no reply is awaited), then register_in_parent.  The object    *)
(* is dropped when new returns Err.                                        *)
CharacteristicNew(c, host, reply, handle, desc_host) ==
    /\ service_handle # None
    /\ char_handle[c] = None
    /\ gatts_events' = MapPut(gatts_events, "CharacteristicAdded", "add_characteristic")
    /\ IF /\ host = "ok"
          /\ reply \in {"ok", "other_service"}
          /\ ~service_handle_differs(ReplyServiceHandle(reply))
          /\ (CharNotifies(c) => desc_host = "ok")
       THEN /\ char_handle' = [char_handle EXCEPT ![c] = handle]
            /\ service_characteristics' = MapPut(service_characteristics, handle, c)
            /\ op_last' = <<Returned("add_characteristic", "CharacteristicAdded", c,
                                     host, reply, "ok")>>
       ELSE /\ op_last' = <<Returned("add_characteristic", "CharacteristicAdded", c,
                                     host, reply, "err")>>
            /\ UNCHANGED <<char_handle, service_characteristics>>
    \* the host answers the accepted add_descriptor call with a DescriptorAdded
    /\ desc_replies' = IF /\ host = "ok"
                          /\ reply \in {"ok", "other_service"}
                          /\ ~service_handle_differs(ReplyServiceHandle(reply))
                          /\ CharNotifies(c)
                          /\ desc_host = "ok"
                       THEN desc_replies + 1
                       ELSE desc_replies
    /\ UNCHANGED <<gattsVars, connVars, gapVars, dispVars, charVars, gap_events,
                   app_interface, service_handle, desc_handle, desc_characteristic, wait,
                   attr, global_len, callback, adv, upd>>

(* Descriptor::register: the descriptor is bound to the characteristic,    *)
(* the handle of the DescriptorAdded reply is stored with set_handle, and  *)
(* the descriptor is inserted into the registry under it; an entry that    *)
(* was there is replaced and Err is returned.                              *)
DescriptorRegister(d, c, host, reply, handle) ==
    /\ char_handle[c] # None
    /\ desc_characteristic' = [desc_characteristic EXCEPT ![d] = c]
    /\ gatts_events' = MapPut(gatts_events, "DescriptorAdded", "add_descriptor")
    /\ IF host = "ok" /\ reply = "ok"
       THEN /\ desc_handle' = [desc_handle EXCEPT ![d] = handle]
            /\ attributes' = MapPut(attributes, handle, d)
            /\ op_last' = <<Returned("add_descriptor", "DescriptorAdded", d, host, reply,
                                     IF handle \in DOMAIN attributes THEN "err" ELSE "ok")>>
       ELSE /\ op_last' = <<Returned("add_descriptor", "DescriptorAdded", d, host, reply,
                                     "err")>>
            /\ UNCHANGED <<desc_handle, attributes>>
    /\ UNCHANGED <<attr_value, updates_len, write_buffer, connVars, gapVars, dispVars,
                   charVars, gap_events, app_interface, service_handle,
                   service_characteristics, char_handle, wait, attr, global_len, callback, desc_replies, adv, upd>>

(* The callback is called with a DescriptorAdded that no operation waits   *)
(* for: it finds no sender, or the sender of an operation that returned,   *)
(* and the event is dropped.                                               *)
DescriptorAddedDropped ==
    /\ desc_replies > 0
    /\ desc_replies' = desc_replies - 1
    /\ UNCHANGED <<gattsVars, connVars, gapVars, dispVars, charVars, routerVars, op_last,
                   app_interface, service_handle, service_characteristics, char_handle,
                   desc_handle, desc_characteristic, wait, attr, global_len, callback, adv, upd>>

(* GapInner::start_advertising called by the application.                  *)
StartAdvertising(host, reply) ==
    /\ gap_events' = gap_events \cup {"AdvertisingStarted"}
    /\ op_last' = <<Returned("start_advertising", "AdvertisingStarted", "gap", host, reply,
                             IF host = "ok" /\ reply = "ok" THEN "ok" ELSE "err")>>
    /\ UNCHANGED <<gattsVars, connVars, gapVars, dispVars, charVars, gatts_events,
                   app_interface, service_handle, service_characteristics, char_handle,
                   desc_handle, desc_characteristic, wait, attr, global_len, callback, desc_replies, adv, upd>>

-----------------------------------------------------------------------------
(* The wait of a correlated operation, second by second: App::            *)
(* register_bluedroid and GattsInner::send_response between their host     *)
(* call and their return.                                                  *)

RECV_TIMEOUT_S == 5     \* recv_timeout(Duration::from_secs(5))
MaxSkipped == 2         \* ServiceRegistered replies for other applications still to come
AppIds == {1, 2}
ReplyStatuses == {"Ok", "Busy"}
ResponseHandles == {1, 2}

(* What the wait leaves unchanged.                                         *)
WaitFrame ==
    UNCHANGED <<gattsVars, connVars, gapVars, dispVars, charVars, gap_events,
                service_handle, service_characteristics, char_handle, desc_handle,
                desc_characteristic, attr, global_len, callback, desc_replies, adv, upd>>

(* The operation blocked in recv_timeout returns `res`.                    *)
WaitReturned(res, how) ==
    [op |-> wait[1].op, kind |-> wait[1].kind, obj |-> wait[1].obj, host |-> "ok",
     result |-> res, how |-> how, skipped |-> wait[1].skipped]

(* App::register_bluedroid up to its first recv_timeout.                   *)
register_bluedroid_call(app_id, host) ==
    /\ wait = <<>>
    /\ gatts_events' = MapPut(gatts_events, "ServiceRegistered", "register_app")
    /\ IF host = "err"
       THEN /\ op_last' = <<[op |-> "register_app", kind |-> "ServiceRegistered",
                             obj |-> app_id, host |-> host, result |-> "err",
                             how |-> "host", skipped |-> 0]>>
            /\ UNCHANGED wait
       ELSE /\ wait' = <<[op |-> "register_app", kind |-> "ServiceRegistered",
                          obj |-> app_id, elapsed |-> 0, skipped |-> 0]>>
            /\ UNCHANGED op_last
    /\ UNCHANGED app_interface
    /\ WaitFrame

(* GattsInner::send_response up to its recv_timeout.                       *)
send_response_call(attribute_handle, host) ==
    /\ wait = <<>>
    /\ gatts_events' = MapPut(gatts_events, "ResponseComplete", "send_response")
    /\ IF host = "err"
       THEN /\ op_last' = <<[op |-> "send_response", kind |-> "ResponseComplete",
                             obj |-> attribute_handle, host |-> host, result |-> "err",
                             how |-> "host", skipped |-> 0]>>
            /\ UNCHANGED wait
       ELSE /\ wait' = <<[op |-> "send_response", kind |-> "ResponseComplete",
                          obj |-> attribute_handle, elapsed |-> 0, skipped |-> 0]>>
            /\ UNCHANGED op_last
    /\ UNCHANGED app_interface
    /\ WaitFrame

(* A second of the running recv_timeout passes.                            *)
Elapse ==
    /\ wait # <<>>
    /\ wait[1].elapsed < RECV_TIMEOUT_S
    /\ wait' = <<[wait[1] EXCEPT !.elapsed = @ + 1]>>
    /\ UNCHANGED <<gatts_events, op_last, app_interface>>
    /\ WaitFrame

(* The recv_timeout of the operation starts again and again.               *)
RecvTimeoutRestarts ==
    /\ wait # <<>>
    /\ wait[1].elapsed = RECV_TIMEOUT_S
    /\ wait' = <<[wait[1] EXCEPT !.elapsed = 0]>>
    /\ UNCHANGED <<gatts_events, op_last, app_interface>>
    /\ WaitFrame

(* recv_timeout returns Err: the operation fails; register_bluedroid       *)
(* removes its sender, send_response leaves it.                            *)
RecvTimeout ==
    /\ wait # <<>>
    /\ wait[1].elapsed = RECV_TIMEOUT_S
    /\ wait' = <<>>
    /\ op_last' = <<WaitReturned("err", "timeout")>>
    /\ gatts_events' = IF wait[1].op = "register_app"
                       THEN MapRemove(gatts_events, "ServiceRegistered")
                       ELSE gatts_events
    /\ UNCHANGED app_interface
    /\ WaitFrame

(* A ServiceRegistered event reaches register_bluedroid before the         *)
(* timeout: one for another app_id is skipped and recv_timeout is called   *)
(* anew, one for this app_id ends the operation.                           *)
ServiceRegisteredArrives(app_id, status, interface) ==
    /\ wait # <<>>
    /\ wait[1].op = "register_app"
    /\ wait[1].elapsed < RECV_TIMEOUT_S
    /\ IF app_id # wait[1].obj
       THEN /\ wait[1].skipped < MaxSkipped
            /\ wait' = <<[wait[1] EXCEPT !.elapsed = 0, !.skipped = @ + 1]>>
            /\ UNCHANGED <<gatts_events, op_last, app_interface>>
       ELSE /\ wait' = <<>>
            /\ gatts_events' = MapRemove(gatts_events, "ServiceRegistered")
            /\ IF status = "Ok" /\ app_interface = None
               THEN /\ app_interface' = interface
                    /\ op_last' = <<WaitReturned("ok", "reply")>>
               ELSE /\ op_last' = <<WaitReturned("err", "reply")>>
                    /\ UNCHANGED app_interface
    /\ WaitFrame

(* A ResponseComplete event reaches send_response before the timeout.      *)
ResponseCompleteArrives(handle, status) ==
    /\ wait # <<>>
    /\ wait[1].op = "send_response"
    /\ wait[1].elapsed < RECV_TIMEOUT_S
    /\ wait' = <<>>
    /\ op_last' = <<WaitReturned(IF handle = wait[1].obj /\ status = "Ok" THEN "ok"
                                 ELSE "err", "reply")>>
    /\ UNCHANGED <<gatts_events, app_interface>>
    /\ WaitFrame

NextWait ==
    \/ \E app_id \in AppIds, host \in HostCalls : register_bluedroid_call(app_id, host)
    \/ \E handle \in ResponseHandles, host \in HostCalls : send_response_call(handle, host)
    \/ Elapse
    \/ RecvTimeout
    \/ \E app_id \in AppIds, status \in ReplyStatuses, interface \in Interfaces :
          ServiceRegisteredArrives(app_id, status, interface)
    \/ \E handle \in ResponseHandles, status \in ReplyStatuses :
          ResponseCompleteArrives(handle, status)

(* Time passes and a recv_timeout whose deadline has passed returns.       *)
SpecWait == InitRegister /\ [][NextWait]_vars /\ WF_vars(Elapse) /\ WF_vars(RecvTimeout)

-----------------------------------------------------------------------------
(* One attribute object of every default codec on its own: Attribute::new, *)
(* AnyAttribute::get_bytes and update_from_bytes, and the application      *)
(* taking an update from the attribute's channel.                          *)

MaxBytesLen == 5        \* the longest byte string passed to update_from_bytes
SampleBytes == {0, 255}

RECURSIVE SeqsUpTo(_, _)
SeqsUpTo(S, n) ==
    IF n = 0 THEN {<<>>}
    ELSE LET shorter == SeqsUpTo(S, n - 1)
         IN  shorter \cup {<<x>> \o q : x \in S, q \in {t \in shorter : Len(t) = n - 1}}

ByteStrings == SeqsUpTo(SampleBytes, MaxBytesLen)

(* The values the application constructs an attribute with.                *)
InitialValues(codec) ==
    CASE codec = "U8"     -> {0, 1, 127, 128, 255}
      [] codec = "U16"    -> {0, 1, 255, 256, 513, 65535}
      [] codec = "U32"    -> {[hi |-> 0, lo |-> 0], [hi |-> 0, lo |-> 1],
                              [hi |-> 1, lo |-> 0], [hi |-> 258, lo |-> 772],
                              [hi |-> 32768, lo |-> 0], [hi |-> 65535, lo |-> 65535]}
      [] codec = "I8"     -> {-128, -1, 0, 1, 127}
      [] codec = "I16"    -> {-32768, -257, -1, 0, 513, 32767}
      [] codec = "I32"    -> {-2147483647 - 1, -16909060, -1, 0, 16909060, 2147483647}
      [] codec = "Bool"   -> BOOLEAN
      [] codec = "F32"    -> {[hi |-> 0, lo |-> 0], [hi |-> 16256, lo |-> 0],
                              [hi |-> 32704, lo |-> 0], [hi |-> 32768, lo |-> 0]}
      [] codec = "String" -> {<<>>, <<0>>, <<65>>, <<127>>, <<128>>, <<233>>, <<2047>>,
                              <<2048>>, <<8364>>, <<55295>>, <<57344>>, <<65535>>,
                              <<65536>>, <<128512>>, <<1114111>>, <<65, 8364, 66>>}
      [] codec = "Bytes"  -> {<<>>, <<1, 2>>, <<0, 128, 255>>}

(* Either an attribute object of some codec that is not registered with a  *)
(* server, or the server with its two registered attributes.               *)
InitCodec ==
    \/ /\ InitEmptyServer
       /\ InitRouter({})
       /\ \E codec \in Codecs : \E v \in InitialValues(codec) :
             attr = <<[codec |-> codec, value |-> v, updates_len |-> 0, op |-> "new",
                       bytes |-> <<>>, result |-> "none"]>>
    \/ Init

(* The handle the attribute of the fixed-width codec is registered under.  *)
BoolHandle == 2

(* The values of the Writes of a peer: too short, one byte, too long.      *)
CodecWriteValues == {<<>>, <<2>>, <<2, 2>>}

(* AnyAttribute::get_bytes                                                 *)
attribute_get_bytes ==
    /\ attr # <<>>
    /\ attr[1].result # "blocked"
    /\ attr' = <<[attr[1] EXCEPT !.op = "get_bytes",
                                 !.bytes = get_bytes(attr[1].codec, attr[1].value),
                                 !.result = "ok"]>>
    /\ UNCHANGED <<gattsVars, connVars, gapVars, dispVars, charVars, routerVars, op_last,
                   app_interface, service_handle, service_characteristics, char_handle,
                   desc_handle, desc_characteristic, wait, global_len, callback, desc_replies, adv, upd>>

(* The bytes are passed on as they are.                                    *)
update_from_bytes_unchecked(bytes) ==
    /\ attr # <<>>
    /\ attr[1].result # "blocked"
    /\ attr' = <<[attr[1] EXCEPT !.op = "update_from_bytes", !.bytes = bytes,
                                 !.value = bytes, !.result = "ok"]>>
    /\ UNCHANGED <<gattsVars, connVars, gapVars, dispVars, charVars, routerVars, op_last,
                   app_interface, service_handle, service_characteristics, char_handle,
                   desc_handle, desc_characteristic, wait, global_len, callback, desc_replies, adv, upd>>

(* AnyAttribute::update_from_bytes: T::from_bytes(bytes)?, then update,    *)
(* which stores the value and sends it on the attribute's channel (the     *)
(* send waits while the channel is full).                                  *)
update_from_bytes(bytes) ==
    /\ attr # <<>>
    /\ attr[1].result # "blocked"
    /\ LET new_value == from_bytes(attr[1].codec, bytes)
       IN  attr' = <<IF ~new_value.ok
                     THEN [attr[1] EXCEPT !.op = "update_from_bytes", !.bytes = bytes,
                                          !.result = "err"]
                     ELSE IF attr[1].updates_len < CHANNEL_CAPACITY
                     THEN [attr[1] EXCEPT !.op = "update_from_bytes", !.bytes = bytes,
                                          !.value = new_value.val,
                                          !.updates_len = @ + 1, !.result = "ok"]
                     ELSE [attr[1] EXCEPT !.op = "update_from_bytes", !.bytes = bytes,
                                          !.value = new_value.val,
                                          !.result = "blocked"]>>
    /\ UNCHANGED <<gattsVars, connVars, gapVars, dispVars, charVars, routerVars, op_last,
                   app_interface, service_handle, service_characteristics, char_handle,
                   desc_handle, desc_characteristic, wait, global_len, callback, desc_replies, adv, upd>>

(* The application receives from the attribute's channel; a send that      *)
(* waited goes through.                                                    *)
attribute_updates_recv ==
    /\ attr # <<>>
    /\ attr[1].updates_len > 0
    /\ attr' = <<IF attr[1].result = "blocked"
                 THEN [attr[1] EXCEPT !.result = "ok"]
                 ELSE [attr[1] EXCEPT !.updates_len = @ - 1]>>
    /\ UNCHANGED <<gattsVars, connVars, gapVars, dispVars, charVars, routerVars, op_last,
                   app_interface, service_handle, service_characteristics, char_handle,
                   desc_handle, desc_characteristic, wait, global_len, callback, desc_replies, adv, upd>>

NextCodec ==
    \/ attribute_get_bytes
    \/ \E bytes \in ByteStrings : update_from_bytes(bytes)
    \/ attribute_updates_recv
    \/ \E trans_id \in TransIds, offset \in WriteOffsets, is_prep \in BOOLEAN,
          value \in CodecWriteValues :
          \* a Write comes from a peer of a registered application
          /\ CharInterface \in DOMAIN apps
          /\ HandleWrite(CharInterface, 1, trans_id, BoolHandle, offset, FALSE, is_prep,
                         value, "ok")
    \/ ResumeUpdate("ok")
    \/ \E d \in Descs : UpdatesRecv(d)

SpecCodec == InitCodec /\ [][NextCodec]_vars

-----------------------------------------------------------------------------
(* From the host callback to the dispatcher thread.                        *)

(* The closure Gatts::init_callback subscribes, called by the host with an *)
(* event of `kind`: without a sender for the kind it returns; an event of  *)
(* a dispatcher kind is sent on the dispatcher's bounded(1) channel, and   *)
(* the send waits while the channel is full.                               *)
HostCallback(kind) ==
    /\ callback = "idle"
    /\ kind \in DOMAIN gatts_events
    /\ gatts_events[kind] = "dispatcher"
    /\ IF global_len < CHANNEL_CAPACITY
       THEN /\ global_len' = global_len + 1
            /\ UNCHANGED callback
       ELSE /\ callback' = "blocked"
            /\ UNCHANGED global_len
    /\ UNCHANGED <<gattsVars, connVars, gapVars, dispVars, charVars, routerVars, op_last,
                   app_interface, service_handle, service_characteristics, char_handle,
                   desc_handle, desc_characteristic, wait, attr, desc_replies, adv, upd>>

(* `for event in rx.iter()`: the dispatcher thread, between two handlers,  *)
(* takes the next event; a send that waited for the slot goes through.     *)
DispatcherRecv ==
    /\ disp = "idle"
    /\ last_kind # "received"
    /\ global_len > 0
    /\ last_kind' = "received"
    /\ IF callback = "blocked"
       THEN /\ callback' = "idle"
            /\ UNCHANGED global_len
       ELSE /\ global_len' = global_len - 1
            /\ UNCHANGED callback
    /\ UNCHANGED <<gattsVars, connVars, gapVars, disp, pending, last_event, sent, result,
                   charVars, routerVars, op_last, app_interface, service_handle,
                   service_characteristics, char_handle, desc_handle,
                   desc_characteristic, wait, attr, desc_replies, adv, upd>>

NextCallback ==
    \/ \E kind \in DispatcherKinds : HostCallback(kind)
    \/ DispatcherRecv
    \/ \E trans_id \in TransIds, handle \in Handles, offset \in WriteOffsets,
          is_prep \in BOOLEAN, value \in WriteValues :
          \* the handler of the event the dispatcher has taken
          /\ last_kind = "received"
          /\ HandleWrite(CharInterface, 1, trans_id, handle, offset, FALSE, is_prep,
                         value, "ok")
    \/ \E trans_id \in TransIds, canceled \in BOOLEAN :
          /\ last_kind = "received"
          /\ HandleExecWrite(CharInterface, 1, trans_id, canceled, "ok")
    \/ ResumeUpdate("ok")
    \/ \E d \in Descs : UpdatesRecv(d)

SpecCallback == Init /\ [][NextCallback]_vars

(* send_response of the handler the dispatcher runs, at                    *)
(* `self.gatts_events.write()`: the callback, blocked in its send, holds   *)
(* the read lock of the map, and the dispatcher waits for it.              *)
SendResponseWaits ==
    /\ disp = "idle"
    /\ last_kind = "received"
    /\ callback = "blocked"
    /\ disp' = "blocked"
    /\ pending' = <<[kind |-> "response", stage |-> "router_write",
                     gatts_if |-> CharInterface, conn_id |-> 1]>>
    /\ UNCHANGED <<gattsVars, connVars, gapVars, last_kind, last_event, sent, result,
                   charVars, routerVars, regVars>>

(* The same two threads with handlers that answer the peer: a handler      *)
(* that calls send_response takes the write lock of the map the callback   *)
(* reads under its read lock.                                              *)
NextLock ==
    \/ \E kind \in DispatcherKinds : HostCallback(kind)
    \/ DispatcherRecv
    \/ \E trans_id \in TransIds, handle \in Handles, need_rsp \in BOOLEAN,
          is_prep \in BOOLEAN, value \in WriteValues :
          /\ last_kind = "received"
          \* the write lock is free once the callback has returned
          /\ need_rsp => callback = "idle"
          /\ HandleWrite(CharInterface, 1, trans_id, handle, 0, need_rsp, is_prep,
                         value, "ok")
    \/ SendResponseWaits
    \/ ResumeUpdate("ok")
    \/ \E d \in Descs : UpdatesRecv(d)

SpecLock == Init /\ [][NextLock]_vars

-----------------------------------------------------------------------------
NextWrite ==
    \/ \E trans_id \in TransIds, handle \in Handles, offset \in WriteOffsets,
          need_rsp \in BOOLEAN, is_prep \in BOOLEAN, value \in WriteValues,
          sr \in SendOutcomes :
          \* without a response the outcome of send_response is not an input
          /\ (need_rsp \/ sr = "ok")
          /\ HandleWrite(1, 1, trans_id, handle, offset, need_rsp, is_prep, value, sr)
    \/ \E trans_id \in TransIds, canceled \in BOOLEAN, sr \in SendOutcomes :
          HandleExecWrite(1, 1, trans_id, canceled, sr)
    \/ \E sr \in SendOutcomes : ResumeUpdate(sr)
    \/ \E d \in Descs : UpdatesRecv(d)

SpecWrite == Init /\ [][NextWrite]_vars

NextRead ==
    \/ \E gatts_if \in Interfaces, conn_id \in ReadPeers :
          HandlePeerConnected(gatts_if, conn_id)
    \/ \E gatts_if \in Interfaces, conn_id \in ReadPeers :
          HandlePeerDisconnected(gatts_if, conn_id)
    \/ \E gatts_if \in Interfaces, conn_id \in ReadPeers, mtu \in Mtus :
          HandleMtu(gatts_if, conn_id, mtu)
    \/ \E gatts_if \in Interfaces, conn_id \in ReadPeers, trans_id \in TransIds,
          handle \in Handles, offset \in ReadOffsets, need_rsp \in BOOLEAN,
          overflow_checks \in BOOLEAN, sr \in SendOutcomes :
          \* without a response neither the build nor send_response is an input
          /\ (need_rsp \/ (sr = "ok" /\ overflow_checks))
          /\ HandleRead(gatts_if, conn_id, trans_id, handle, offset, need_rsp,
                        overflow_checks, sr)
    \/ ResumeSend
    \/ ConnectionsRecv
    \/ GapLoopIter

SpecRead == InitRead /\ [][NextRead]_vars

NextIndicate ==
    \/ \E conn_id \in ConnIds, mtu \in Mtus : HandleMtu(CharInterface, conn_id, mtu)
    \/ \E value \in CharValues, order \in Orders(DOMAIN apps[CharInterface]),
          outcome \in [ConnIds -> IndOutcomes] :
          UpdateValue(value, order, outcome)
    \/ \E order \in Orders(DOMAIN apps[CharInterface]),
          outcome \in [ConnIds -> IndOutcomes] :
          ResumeUpdateValue(order, outcome)
    \/ CharUpdatesRecv

SpecIndicate == InitIndicate /\ [][NextIndicate]_vars

NextGap ==
    \/ \E gatts_if \in GapInterfaces, conn_id \in GapConnIds :
          HandlePeerConnected(gatts_if, conn_id)
    \/ \E gatts_if \in GapInterfaces, conn_id \in GapConnIds :
          HandlePeerDisconnected(gatts_if, conn_id)
    \/ \E gatts_if \in GapInterfaces, conn_id \in GapConnIds, mtu \in GapMtus :
          HandleMtu(gatts_if, conn_id, mtu)
    \/ ResumeSend
    \/ ConnectionsRecv
    \/ GapLoopIter
    \/ \E max \in MaxConnectionsValues : SetConfig(max)

SpecGap == InitGap /\ [][NextGap]_vars

(* The same server in a program in which no application thread ever        *)
(* receives from connections_rx; peers also write.                         *)
NextNoReader ==
    \/ \E gatts_if \in GapInterfaces, conn_id \in GapConnIds :
          HandlePeerConnected(gatts_if, conn_id)
    \/ \E gatts_if \in GapInterfaces, conn_id \in GapConnIds :
          HandlePeerDisconnected(gatts_if, conn_id)
    \/ \E conn_id \in GapConnIds, trans_id \in TransIds, handle \in Handles,
          value \in WriteValues :
          HandleWrite(CharInterface, conn_id, trans_id, handle, 0, FALSE, FALSE, value,
                      "ok")
    \/ \E d \in Descs : UpdatesRecv(d)
    \/ ResumeSend
    \/ GapLoopIter

SpecNoReader == InitGap /\ [][NextNoReader]_vars

(* The server with the auto-advertising thread running until the           *)
(* application drops the server; the dispatcher runs a handler only while  *)
(* it can upgrade its Weak.                                                *)
AdvThread ==
    \/ AdvRecv
    \/ AdvUpgrade
    \/ AdvCheckUpgrade
    \/ AdvCheckReturn
    \/ AdvStartAdvertising

NextAdvertise ==
    \/ \E conn_id \in GapConnIds, gatts_if \in GapInterfaces :
          /\ ~GattsDropped
          /\ HandlePeerConnected(gatts_if, conn_id)
    \/ \E conn_id \in GapConnIds, gatts_if \in GapInterfaces :
          /\ ~GattsDropped
          /\ HandlePeerDisconnected(gatts_if, conn_id)
    \/ ResumeSend
    \/ ConnectionsRecv
    \/ DropGatts
    \/ AdvThread

SpecAdvertise == InitGap /\ [][NextAdvertise]_vars /\ WF_vars(AdvThread)

(* The reply is an input only when the host call returned Ok, and the      *)
(* add_descriptor call only for a characteristic that makes it.  The host  *)
(* reports a handle it has not assigned before.                            *)
NextRegister ==
    \/ \E interface \in Interfaces, host \in HostCalls, reply \in Replies :
          /\ host = "err" => reply = "timeout"
          /\ RegisterApp(interface, host, reply)
    \/ \E host \in HostCalls, reply \in Replies, handle \in ServiceHandles :
          /\ host = "err" => reply = "timeout"
          /\ ServiceCreate(host, reply, handle)
    \/ \E host \in HostCalls, reply \in Replies :
          /\ host = "err" => reply = "timeout"
          /\ ServiceStart(host, reply)
    \/ \E host \in HostCalls, reply \in Replies :
          /\ host = "err" => reply = "timeout"
          /\ ServiceStop(host, reply)
    \/ \E c \in Chars, host \in HostCalls, reply \in CharReplies, handle \in AttrHandles,
          desc_host \in HostCalls :
          /\ host = "err" => reply = "timeout"
          /\ desc_host = "err" => (CharNotifies(c) /\ host = "ok" /\ reply = "ok")
          /\ handle \notin AssignedHandles
          /\ CharacteristicNew(c, host, reply, handle, desc_host)
    \/ \E d \in Descs, c \in Chars, host \in HostCalls, reply \in Replies,
          handle \in AttrHandles :
          /\ host = "err" => reply = "timeout"
          \* the handle of a descriptor registered before may come again
          /\ handle \notin (AssignedHandles \ DOMAIN attributes)
          /\ DescriptorRegister(d, c, host, reply, handle)
    \/ \E host \in HostCalls, reply \in Replies :
          /\ host = "err" => reply = "timeout"
          /\ StartAdvertising(host, reply)

SpecRegister == InitRegister /\ [][NextRegister]_vars

(* Prepared and plain Writes at the start of the buffer and at the largest *)
(* attribute length.                                                       *)
CapOffsets == {0, ESP_GATT_MAX_ATTR_LEN}

NextCap ==
    \/ \E trans_id \in TransIds, handle \in Handles, offset \in CapOffsets,
          need_rsp \in BOOLEAN, is_prep \in BOOLEAN, value \in WriteValues :
          HandleWrite(1, 1, trans_id, handle, offset, need_rsp, is_prep, value, "ok")
    \/ \E trans_id \in TransIds, canceled \in BOOLEAN :
          HandleExecWrite(1, 1, trans_id, canceled, "ok")
    \/ ResumeUpdate("ok")
    \/ \E d \in Descs : UpdatesRecv(d)

SpecCap == Init /\ [][NextCap]_vars

(* Writes and Reads of two connected peers whose MTU is known, handled by  *)
(* the dispatcher one after the other.                                     *)
VisPeers == {1, 2}
VisWriteValues == {<<0>>, <<2>>}
VisReadOffsets == {0}
VisHandles == {1, 2}

InitVisible == InitWithPeers(VisPeers)

NextVisible ==
    \/ \E conn_id \in VisPeers, trans_id \in TransIds, handle \in VisHandles,
          offset \in VisReadOffsets, is_prep \in BOOLEAN, value \in VisWriteValues :
          HandleWrite(CharInterface, conn_id, trans_id, handle, offset, TRUE,
                      is_prep, value, "ok")
    \/ \E conn_id \in VisPeers, trans_id \in TransIds, canceled \in BOOLEAN :
          HandleExecWrite(CharInterface, conn_id, trans_id, canceled, "ok")
    \/ \E conn_id \in VisPeers, mtu \in Mtus : HandleMtu(CharInterface, conn_id, mtu)
    \/ ResumeUpdate("ok")
    \/ \E d \in Descs : UpdatesRecv(d)
    \/ \E conn_id \in VisPeers, trans_id \in TransIds, handle \in VisHandles,
          offset \in VisReadOffsets :
          HandleRead(CharInterface, conn_id, trans_id, handle, offset, TRUE, TRUE, "ok")

SpecVisible == InitVisible /\ [][NextVisible]_vars

(* The life of one service: the application is registered, the service is  *)
(* created, started and stopped, and advertising is started.               *)
NextService ==
    \/ \E interface \in Interfaces, host \in HostCalls, reply \in Replies :
          /\ host = "err" => reply = "timeout"
          /\ RegisterApp(interface, host, reply)
    \/ \E host \in HostCalls, reply \in Replies, handle \in ServiceHandles :
          /\ host = "err" => reply = "timeout"
          /\ ServiceCreate(host, reply, handle)
    \/ \E host \in HostCalls, reply \in Replies :
          /\ host = "err" => reply = "timeout"
          /\ ServiceStart(host, reply)
    \/ \E host \in HostCalls, reply \in Replies :
          /\ host = "err" => reply = "timeout"
          /\ ServiceStop(host, reply)
    \/ \E host \in HostCalls, reply \in Replies :
          /\ host = "err" => reply = "timeout"
          /\ StartAdvertising(host, reply)

SpecService == InitRegister /\ [][NextService]_vars

(* The attribute table of one service is built: the application is         *)
(* registered, the service is created,                                     *)
(* its characteristics are added, with the descriptor the library adds on  *)
(* its own, and the application's descriptors are registered; the host's   *)
(* replies that nobody waits for arrive in between.                        *)
NextDescriptors ==
    \/ \E interface \in Interfaces, host \in HostCalls, reply \in Replies :
          /\ host = "err" => reply = "timeout"
          /\ RegisterApp(interface, host, reply)
    \/ \E host \in HostCalls, reply \in Replies, handle \in ServiceHandles :
          /\ host = "err" => reply = "timeout"
          /\ ServiceCreate(host, reply, handle)
    \/ \E c \in Chars, host \in HostCalls, reply \in CharReplies, handle \in AttrHandles,
          desc_host \in HostCalls :
          /\ host = "err" => reply = "timeout"
          /\ desc_host = "err" => (CharNotifies(c) /\ host = "ok" /\ reply = "ok")
          /\ handle \notin AssignedHandles
          /\ CharacteristicNew(c, host, reply, handle, desc_host)
    \/ \E d \in Descs, c \in Chars, host \in HostCalls, reply \in Replies,
          handle \in AttrHandles :
          /\ host = "err" => reply = "timeout"
          /\ handle \notin (AssignedHandles \ DOMAIN attributes)
          /\ DescriptorRegister(d, c, host, reply, handle)
    \/ DescriptorAddedDropped

SpecDescriptors == InitRegister /\ [][NextDescriptors]_vars

-----------------------------------------------------------------------------
(* Properties.  A step of a handler is recognised by the event it records: *)
(* last_event' is the event the handler was run with.                      *)

Max(a, b) == IF a > b THEN a ELSE b

Min3(a, b, c) == Min(Min(a, b), c)

(* The step is the Write handler run with event e.                         *)
WriteStep(e) ==
    HandleWrite(e.gatts_if, e.conn_id, e.trans_id, e.handle, e.offset, e.need_rsp,
                e.is_prep, e.value, e.sr)

(* The step is the ExecWrite handler run with event e.                     *)
ExecStep(e) == HandleExecWrite(e.gatts_if, e.conn_id, e.trans_id, e.canceled, e.sr)

(* The step is the Read handler run with event e.                          *)
ReadStep(e) ==
    HandleRead(e.gatts_if, e.conn_id, e.trans_id, e.handle, e.offset, e.need_rsp,
               e.overflow_checks, e.sr)

TookWrite == last_kind' = "write" /\ WriteStep(last_event'[1])
TookExec == last_kind' = "exec" /\ ExecStep(last_event'[1])
TookRead == last_kind' = "read" /\ ReadStep(last_event'[1])

(* The step is the rest of a blocked Write (ExecWrite) handler.            *)
ResumedWrite ==
    /\ disp = "blocked" /\ pending # <<>> /\ pending[1].kind = "write"
    /\ \E sr \in SendOutcomes : ResumeUpdate(sr)
ResumedExec ==
    /\ disp = "blocked" /\ pending # <<>> /\ pending[1].kind = "exec"
    /\ \E sr \in SendOutcomes : ResumeUpdate(sr)

(* The bytes a chunk spliced at an offset leaves in a buffer, position by  *)
(* position: the chunk where it lies, the old bytes elsewhere, 0 in a gap. *)
IsSpliceOf(new, old, offset, chunk) ==
    /\ Len(new) = Max(Len(old), offset + Len(chunk))
    /\ \A i \in 1..Len(new) :
          new[i] = IF i > offset /\ i <= offset + Len(chunk) THEN chunk[i - offset]
                   ELSE IF i <= Len(old) THEN old[i]
                   ELSE 0

(* `handle` is registered and its attribute's codec accepts `bytes`.       *)
Accepts(handle, bytes) ==
    /\ handle \in DOMAIN attributes
    /\ from_bytes(DescCodec(attributes[handle]), bytes).ok

(* The bytes of the buffer of transfer id t before the step.               *)
OldBuffer(t) == IF t \in DOMAIN write_buffer THEN write_buffer[t].value ELSE <<>>

C2_CancelDiscardsBuffer ==
    [][(TookExec /\ last_event'[1].canceled
          /\ last_event'[1].trans_id \in DOMAIN write_buffer)
       => /\ attr_value' = attr_value
          /\ last_event'[1].trans_id \notin DOMAIN write_buffer']_vars

(* The buffer of transfer id t after the chunk of a Write is spliced in.   *)
BufferAfter(t, offset, chunk) == SpliceChunk(OldBuffer(t), offset, chunk)

(* C6: a Write with need_rsp=false makes no send_response call, whether it *)
(* is prepared or not and whether the apply succeeds or fails, and its     *)
(* effects still happen: a prepared chunk is in the buffer at its offset,  *)
(* an accepted unprepared write sets the attribute to the decoded buffer   *)
(* and, once the handler completes, removes the buffer.                    *)
C6_WriteWithoutResponse ==
    [][/\ (TookWrite /\ ~last_event'[1].need_rsp)
          => LET e == last_event'[1]
                 t == e.trans_id
                 accepted == Accepts(e.handle, BufferAfter(t, e.offset, e.value))
             IN  /\ sent' = <<>>
                 /\ e.is_prep
                    => /\ t \in DOMAIN write_buffer'
                       /\ \A i \in 1..Len(e.value) :
                             write_buffer'[t].value[e.offset + i] = e.value[i]
                       /\ attr_value' = attr_value
                 /\ (~e.is_prep /\ accepted)
                    => /\ attr_value'[attributes[e.handle]] =
                            from_bytes(DescCodec(attributes[e.handle]),
                                       BufferAfter(t, e.offset, e.value)).val
                       /\ result' # "none" => /\ result' = "ok"
                                              /\ t \notin DOMAIN write_buffer'
                 /\ (~e.is_prep /\ ~accepted)
                    => /\ result' = "err"
                       /\ attr_value' = attr_value
       /\ (ResumedWrite /\ ~pending[1].need_rsp)
          => /\ sent' = <<>>
             /\ result' = "ok"
             /\ pending[1].trans_id \notin DOMAIN write_buffer']_vars

(* An unprepared Write without response was applied to the Bytes           *)
(* attribute: nothing was sent, the value is set, the buffer is gone.      *)
C6_Witness ==
    /\ last_kind = "write"
    /\ ~last_event[1].need_rsp /\ ~last_event[1].is_prep /\ last_event[1].handle = 1
    /\ result = "ok"
    /\ sent = <<>>
    /\ attr_value["dBytes"] = <<2>>
    /\ write_buffer = <<>>

(* C7: a Write with need_rsp=true whose handler completes makes exactly    *)
(* one send_response call, a Write Response that echoes the event's        *)
(* handle, offset and value with auth_req 0; its status is Ok when the     *)
(* write is prepared or the handle is registered and the codec accepts the *)
(* buffer, and Error otherwise.                                            *)
C7_WriteResponse ==
    [][/\ (TookWrite /\ last_event'[1].need_rsp /\ result' # "none")
          => LET e == last_event'[1] IN
             /\ Len(sent') = 1
             /\ sent'[1].gatts_if = e.gatts_if
             /\ sent'[1].conn_id = e.conn_id
             /\ sent'[1].trans_id = e.trans_id
             /\ sent'[1].response =
                   <<[attr_handle |-> e.handle, auth_req |-> 0, offset |-> e.offset,
                      value |-> e.value]>>
             /\ sent'[1].status \in {"Ok", "Error"}
             /\ sent'[1].status = "Ok"
                   <=> (e.is_prep
                        \/ Accepts(e.handle, BufferAfter(e.trans_id, e.offset, e.value)))
       /\ (ResumedWrite /\ pending[1].need_rsp)
          => /\ Len(sent') = 1
             /\ sent'[1].status = "Ok"
             /\ sent'[1].trans_id = pending[1].trans_id
             /\ sent'[1].response =
                   <<[attr_handle |-> pending[1].handle, auth_req |-> 0,
                      offset |-> pending[1].offset, value |-> pending[1].value]>>]_vars

(* An unprepared Write to the Bool attribute at offset 1 (a two-byte       *)
(* buffer the codec rejects) was answered with one Error Write Response    *)
(* that echoes the event.                                                  *)
C7_Witness ==
    /\ last_kind = "write"
    /\ last_event[1].need_rsp /\ ~last_event[1].is_prep
    /\ Len(sent) = 1
    /\ sent[1].status = "Error"
    /\ sent[1].response = <<[attr_handle |-> 2, auth_req |-> 0, offset |-> 1,
                             value |-> <<2>>]>>
    /\ attr_value["dBool"] = FALSE

(* C8 as stated: an ExecWrite for a transfer id without a prepare buffer   *)
(* is answered with an Error response and changes no attribute.            *)
C8_ExecWithoutBufferAnswered ==
    [][(TookExec /\ last_event'[1].trans_id \notin DOMAIN write_buffer)
       => /\ Len(sent') = 1
          /\ sent'[1].status = "Error"
          /\ attr_value' = attr_value]_vars

(* C32 as stated: once the handler of a Write with is_prep=false or of an  *)
(* ExecWrite for transfer id t has completed, no buffer for t remains,     *)
(* whether the bytes were applied or the apply failed.                     *)
C32_NoBufferAfterCompletion ==
    [][(/\ \/ TookWrite /\ ~last_event'[1].is_prep
           \/ TookExec
        /\ result' # "none")
       => last_event'[1].trans_id \notin DOMAIN write_buffer']_vars

(* The handler that completed last ended the transfer with id t: an        *)
(* ExecWrite or a Write with is_prep=false.                                *)
EndedTransfer(t) ==
    /\ last_kind \in {"write", "exec"}
    /\ result # "none"
    /\ last_event[1].trans_id = t
    /\ last_kind = "write" => ~last_event[1].is_prep

(* C40 as stated: a Write with is_prep=false for transfer id t handled     *)
(* right after the transfer t ended (applied, failed or cancelled) applies *)
(* its own chunk only, to its own handle: the attribute under the Write's  *)
(* handle takes the value decoded from the chunk spliced into an empty     *)
(* buffer when its codec accepts those bytes, and nothing changes          *)
(* otherwise.                                                              *)
C40_NothingCarriedOver ==
    [][(/\ TookWrite
        /\ ~last_event'[1].is_prep
        /\ last_event'[1].handle \in DOMAIN attributes
        /\ EndedTransfer(last_event'[1].trans_id))
       => LET e == last_event'[1]
              d == attributes[e.handle]
              own == from_bytes(DescCodec(d), SpliceChunk(<<>>, e.offset, e.value))
          IN  attr_value' = IF own.ok THEN [attr_value EXCEPT ![d] = own.val]
                            ELSE attr_value]_vars

-----------------------------------------------------------------------------
(* Codec properties, checked under SpecCodec.                              *)

(* The bytes a fixed-width codec takes; 0 for String and Bytes.            *)
Width(codec) ==
    CASE codec \in {"U8", "I8", "Bool"} -> 1
      [] codec \in {"U16", "I16"} -> 2
      [] codec \in {"U32", "I32", "F32"} -> 4
      [] OTHER -> 0

(* The step is update_from_bytes called with the bytes it recorded.        *)
UpdatedFromBytes ==
    /\ attr # <<>>
    /\ attr'[1].op = "update_from_bytes"
    /\ update_from_bytes(attr'[1].bytes)

(* Byte i of `bytes` holds bits 8(i-1) .. 8i-1 of v, for every i.          *)
IsLittleEndianOf(bytes, v, width) ==
    /\ Len(bytes) = width
    /\ \A i \in 1..width : bytes[i] = (v \div (256 ^ (i - 1))) % 256

(* C28: for U8, U16, U32, I8, I16, I32, Bool, String and Bytes, decoding   *)
(* the bytes get_bytes returns for a value succeeds and gives the value    *)
(* back; the bytes of a multi-byte integer are its little-endian bytes;    *)
(* and update_from_bytes of an attribute's own encoding leaves its value   *)
(* as it was.                                                              *)
C28_CodecRoundTrip ==
    [][/\ (attribute_get_bytes /\ attr[1].codec # "F32")
          => LET codec == attr[1].codec
                 v == attr[1].value
                 bytes == attr'[1].bytes
             IN  /\ from_bytes(codec, bytes).ok
                 /\ from_bytes(codec, bytes).val = v
                 /\ codec \in {"U16", "I16"} => IsLittleEndianOf(bytes, v, 2)
                 /\ codec = "I32" => IsLittleEndianOf(bytes, v, 4)
                 /\ codec = "U32" => /\ Len(bytes) = 4
                                     /\ IsLittleEndianOf(SubSeq(bytes, 1, 2), v.lo, 2)
                                     /\ IsLittleEndianOf(SubSeq(bytes, 3, 4), v.hi, 2)
       /\ (/\ UpdatedFromBytes
           /\ attr[1].codec # "F32"
           /\ attr'[1].bytes = get_bytes(attr[1].codec, attr[1].value))
          => /\ attr'[1].result # "err"
             /\ attr'[1].value = attr[1].value]_vars

(* get_bytes of the U16 attribute holding 513 returned the bytes 1, 2.     *)
C28_Witness ==
    /\ attr # <<>>
    /\ attr[1].codec = "U16" /\ attr[1].value = 513
    /\ attr[1].op = "get_bytes"
    /\ attr[1].bytes = <<1, 2>>

(* C29 as stated: a non-prepared Write to an attribute of a fixed-width    *)
(* codec whose value has another length than the codec's width leaves the  *)
(* attribute's value as it was.                                            *)
C29_WrongLengthWriteIgnored ==
    [][(/\ TookWrite
        /\ ~last_event'[1].is_prep
        /\ last_event'[1].handle \in DOMAIN attributes
        /\ Width(DescCodec(attributes[last_event'[1].handle])) # 0
        /\ Len(last_event'[1].value)
             # Width(DescCodec(attributes[last_event'[1].handle])))
       => attr_value' = attr_value]_vars

(* C29: from_bytes of a fixed-width codec fails for every byte string      *)
(* whose length is not the codec's width, and update_from_bytes with such  *)
(* bytes returns the error, leaves the value as it was and sends no        *)
(* update; a non-prepared Write to a registered attribute of such a codec  *)
(* fails and leaves every value as it was when the length of the           *)
(* transfer's buffer after the splice is not the codec's width.            *)
C29_WrongLengthRejected ==
    [][/\ (/\ UpdatedFromBytes
           /\ Width(attr[1].codec) # 0
           /\ Len(attr'[1].bytes) # Width(attr[1].codec))
          => /\ ~from_bytes(attr[1].codec, attr'[1].bytes).ok
             /\ attr'[1].result = "err"
             /\ attr'[1].value = attr[1].value
             /\ attr'[1].updates_len = attr[1].updates_len
       /\ (/\ TookWrite
           /\ ~last_event'[1].is_prep
           /\ last_event'[1].handle \in DOMAIN attributes
           /\ Width(DescCodec(attributes[last_event'[1].handle])) # 0
           /\ Len(BufferAfter(last_event'[1].trans_id, last_event'[1].offset,
                              last_event'[1].value))
                # Width(DescCodec(attributes[last_event'[1].handle])))
          => /\ attr_value' = attr_value
             /\ updates_len' = updates_len
             /\ result' = "err"]_vars

(* update_from_bytes of the U32 attribute was called with five bytes and   *)
(* failed.                                                                 *)
C29_Witness ==
    /\ attr # <<>>
    /\ attr[1].codec = "U32"
    /\ attr[1].op = "update_from_bytes"
    /\ Len(attr[1].bytes) = 5
    /\ attr[1].result = "err"
    /\ attr[1].value = [hi |-> 258, lo |-> 772]

-----------------------------------------------------------------------------
(* The host callback, checked under SpecCallback.                          *)

(* C30 as stated: the host callback never waits: delivering an event to    *)
(* the router returns at once, also while the dispatcher is busy and its   *)
(* channel holds an event it has not taken.                                *)
C30_CallbackNeverBlocks == callback # "blocked"

-----------------------------------------------------------------------------
(* The wait for a reply, checked under SpecWait.                           *)

(* C27: an operation blocked in the wait for its reply returns, and when   *)
(* its recv_timeout runs out without the matching reply it returns an      *)
(* error; register_bluedroid also does so after ServiceRegistered replies  *)
(* for other applications made it start the wait anew.                     *)
C27_WaitReturnsError ==
    /\ [](wait # <<>> => <>(wait = <<>>))
    /\ [][(wait # <<>> /\ RecvTimeout)
          => /\ wait' = <<>>
             /\ op_last' # <<>>
             /\ op_last'[1].result = "err"
             /\ op_last'[1].op = wait[1].op]_vars

(* register_bluedroid returned the timeout error after it had skipped      *)
(* replies for another application.                                        *)
C27_Witness ==
    /\ wait = <<>>
    /\ op_last # <<>>
    /\ op_last[1].op = "register_app"
    /\ op_last[1].how = "timeout"
    /\ op_last[1].skipped > 0
    /\ op_last[1].result = "err"

-----------------------------------------------------------------------------
(* Write-to-read visibility, checked under SpecVisible.                    *)

(* The step is a non-prepared Write whose spliced buffer the attribute's   *)
(* codec accepts.                                                          *)
AppliedWrite ==
    /\ TookWrite
    /\ ~last_event'[1].is_prep
    /\ Accepts(last_event'[1].handle,
               BufferAfter(last_event'[1].trans_id, last_event'[1].offset,
                           last_event'[1].value))

(* The step is an ExecWrite, not canceled, of a buffer the codec of the    *)
(* buffer's attribute accepts.                                             *)
AppliedExec ==
    /\ TookExec
    /\ ~last_event'[1].canceled
    /\ last_event'[1].trans_id \in DOMAIN write_buffer
    /\ Accepts(write_buffer[last_event'[1].trans_id].handle,
               write_buffer[last_event'[1].trans_id].value)

(* The part of `bytes` a Read at `offset` over a connection of MTU m gets. *)
ReadWindow(bytes, offset, m) ==
    SubSeq(bytes, offset + 1, Min3(offset + (m - 1), Len(bytes), ESP_GATT_MAX_ATTR_LEN))

(* The step is a Read that was answered Ok.                                *)
AnsweredRead == TookRead /\ Len(sent') = 1 /\ sent'[1].status = "Ok"

(* C24 as stated: a Read of h handled directly after a successful          *)
(* non-prepared Write to h, by whichever connection, is answered with the  *)
(* bytes that Write carried (the part of them that fits the Read's MTU).   *)
C24_ReadReturnsWrittenBytes ==
    [][(/\ AnsweredRead
        /\ last_kind = "write" /\ result = "ok"
        /\ ~last_event[1].is_prep
        /\ last_event[1].handle = last_event'[1].handle)
       => sent'[1].response[1].value =
             ReadWindow(last_event[1].value, last_event'[1].offset,
                        apps[last_event'[1].gatts_if][last_event'[1].conn_id])]_vars

(* C24: the dispatcher takes an event only when it is idle; an applied     *)
(* Write or ExecWrite sets exactly its attribute to the value decoded from *)
(* the buffer, whatever the value was and whichever peer wrote; no other   *)
(* step changes a value; and a Read answered Ok carries the encoding of    *)
(* the value then stored, cut to the Read's offset and MTU, whichever      *)
(* connection reads.                                                       *)
C24_WriteReadVisibility ==
    [][/\ (TookWrite \/ TookExec \/ TookRead) => disp = "idle"
       /\ AppliedWrite
          => LET e == last_event'[1]
                 d == attributes[e.handle]
             IN  attr_value' =
                    [attr_value EXCEPT ![d] =
                        from_bytes(DescCodec(d),
                                   BufferAfter(e.trans_id, e.offset, e.value)).val]
       /\ AppliedExec
          => LET b == write_buffer[last_event'[1].trans_id]
                 d == attributes[b.handle]
             IN  attr_value' =
                    [attr_value EXCEPT ![d] = from_bytes(DescCodec(d), b.value).val]
       /\ ~(AppliedWrite \/ AppliedExec) => attr_value' = attr_value
       /\ AnsweredRead
          => LET e == last_event'[1]
                 d == attributes[e.handle]
             IN  sent'[1].response[1].value =
                    ReadWindow(get_bytes(DescCodec(d), attr_value[d]), e.offset,
                               apps[e.gatts_if][e.conn_id])]_vars

(* Peer 2 read the Bool attribute after peer 1 wrote the byte 2 to it and  *)
(* was answered with the encoding of true.                                 *)
C24_Witness ==
    /\ last_kind = "read"
    /\ last_event[1].conn_id = 2 /\ last_event[1].handle = 2
    /\ attr_value["dBool"] = TRUE
    /\ Len(sent) = 1 /\ sent[1].status = "Ok"
    /\ sent[1].response[1].value = <<1>>

-----------------------------------------------------------------------------
(* Read properties, checked under SpecRead.                                *)

(* The Read names a registered handle and a connection with a known MTU.   *)
ReadServable(e) ==
    /\ e.handle \in DOMAIN attributes
    /\ e.gatts_if \in DOMAIN apps
    /\ e.conn_id \in DOMAIN apps[e.gatts_if]
    /\ apps[e.gatts_if][e.conn_id] # None

(* C3: an Ok response to a Read with need_rsp=true on a registered handle, *)
(* over a connection with MTU m, echoes handle and offset and carries      *)
(* exactly bytes[offset .. min(offset + (m - 1), len, MAX_ATTR_LEN)]; and  *)
(* such a Read gets that Ok response whenever offset <= min(len,           *)
(* MAX_ATTR_LEN) and offset + (m - 1) fits in a u16.                       *)
C3_ReadPayload ==
    [][(TookRead /\ last_event'[1].need_rsp)
       => LET e == last_event'[1]
              okSent == Len(sent') = 1 /\ sent'[1].status = "Ok"
          IN  /\ okSent => ReadServable(e)
              /\ ReadServable(e)
                 => LET bytes == AttrBytes(attributes[e.handle])
                        m == apps[e.gatts_if][e.conn_id]
                        last == Min3(e.offset + (m - 1), Len(bytes),
                                     ESP_GATT_MAX_ATTR_LEN)
                    IN  /\ okSent
                           => sent'[1].response =
                                 <<[attr_handle |-> e.handle, auth_req |-> 0,
                                    offset |-> e.offset,
                                    value |-> SubSeq(bytes, e.offset + 1, last)]>>
                        /\ (/\ e.offset <= Len(bytes)
                            /\ e.offset <= ESP_GATT_MAX_ATTR_LEN
                            /\ e.offset + (m - 1) < U16_MODULUS)
                           => okSent]_vars

(* A Read at offset 0 of the two-byte value over a connection with MTU 2   *)
(* was answered Ok with the first byte only.                               *)
C3_Witness ==
    /\ last_kind = "read"
    /\ last_event[1].need_rsp /\ last_event[1].handle = 1 /\ last_event[1].offset = 0
    /\ attr_value["dBytes"] = <<1, 2>>
    /\ 1 \in DOMAIN apps[1] /\ apps[1][1] = 2
    /\ Len(sent) = 1
    /\ sent[1].status = "Ok"
    /\ sent[1].response = <<[attr_handle |-> 1, auth_req |-> 0, offset |-> 0,
                             value |-> <<1>>]>>

(* C4 as stated: a Read with need_rsp=true on a registered handle over a   *)
(* connection with a known MTU whose offset is equal to or beyond the      *)
(* value's length gets an Ok response with an empty payload, and the       *)
(* dispatcher keeps running.                                               *)
C4_ReadAtOrPastEnd ==
    [][(/\ TookRead /\ last_event'[1].need_rsp /\ ReadServable(last_event'[1])
        /\ last_event'[1].offset
             >= Len(AttrBytes(attributes[last_event'[1].handle])))
       => /\ Len(sent') = 1
          /\ sent'[1].status = "Ok"
          /\ sent'[1].response[1].value = <<>>
          /\ disp' # "dead"]_vars

(* C5 as stated: a Read with need_rsp=false sends no response; a Read with *)
(* need_rsp=true sends exactly one response, Ok when the payload was built *)
(* and Error otherwise, and an Error comes with an error returned to the   *)
(* dispatcher loop, which keeps running.                                   *)
C5_ReadAnswered ==
    [][TookRead
       => /\ ~last_event'[1].need_rsp => sent' = <<>>
          /\ last_event'[1].need_rsp
             => /\ Len(sent') = 1
                /\ sent'[1].status \in {"Ok", "Error"}
                /\ sent'[1].status = "Error" => result' = "err"
                /\ disp' # "dead"]_vars

(* C25 as stated: no event the dispatcher handles terminates it: after a   *)
(* Read, Write, ExecWrite or connection event that fails (unknown handle,  *)
(* unknown connection, offset beyond the value) the dispatcher thread is   *)
(* still there to take the next event.                                     *)
C25_DispatcherSurvives == disp # "dead"

-----------------------------------------------------------------------------
(* The size of the prepare-write buffer, checked under SpecCap.            *)

(* C26 as stated: the buffer of a prepared transfer never holds more than  *)
(* ESP_GATT_MAX_ATTR_LEN bytes: a Write whose offset plus length exceeds   *)
(* the limit is refused and leaves the buffer as it was.                   *)
C26_BufferWithinMaxAttrLen ==
    \A t \in DOMAIN write_buffer : Len(write_buffer[t].value) <= ESP_GATT_MAX_ATTR_LEN

-----------------------------------------------------------------------------
(* Indication properties, checked under SpecIndicate.                      *)

(* An indicate call for connection c was issued and confirmed.             *)
Confirmed(calls, c) ==
    \E i \in 1..Len(calls) : calls[i].conn_id = c /\ calls[i].outcome = "confirmed"

(* An indicate call for connection c was issued.                           *)
Indicated(calls, c) == \E i \in 1..Len(calls) : calls[i].conn_id = c

(* C9 as stated: update_value on a characteristic with indications         *)
(* enabled returns Ok if and only if the indication of every connection of *)
(* the application was sent and confirmed.                                 *)
C9_UpdateValueResult ==
    [][\A value \in CharValues, order \in Orders(DOMAIN apps[CharInterface]),
          outcome \in [ConnIds -> IndOutcomes] :
          (\/ UpdateValue(value, order, outcome) /\ uv_result' # "blocked"
           \/ ResumeUpdateValue(order, outcome))
          => (uv_result' = "ok"
                <=> \A c \in DOMAIN apps[CharInterface] : Confirmed(indicated', c))]_vars

(* C10 as stated: when a connection of the application has no negotiated   *)
(* MTU and every indication that is sent is confirmed, the round of        *)
(* update_value still issues the indicate call for every other connection  *)
(* of the application, those with a known MTU.                             *)
C10_UnknownMtuFailsOnlyItself ==
    [][\A value \in CharValues, order \in Orders(DOMAIN apps[CharInterface]),
          outcome \in [ConnIds -> IndOutcomes] :
          (/\ \/ UpdateValue(value, order, outcome) /\ uv_result' # "blocked"
              \/ ResumeUpdateValue(order, outcome)
           /\ \E c \in DOMAIN apps[CharInterface] : apps[CharInterface][c] = None
           /\ \A c \in ConnIds : outcome[c] = "confirmed")
          => \A c \in DOMAIN apps[CharInterface] :
                apps[CharInterface][c] # None => Indicated(indicated', c)]_vars

(* The step is an update_value call that ran its indication round.         *)
RanRound(value, order, outcome) ==
    \/ UpdateValue(value, order, outcome) /\ uv_result' # "blocked"
    \/ ResumeUpdateValue(order, outcome)

(* C11: every indicate call of an update_value round, for a connection     *)
(* with negotiated MTU m, names the application's interface and the        *)
(* characteristic's handle and carries exactly the first min(len, m) bytes *)
(* of the encoded new value; a truncated payload is no error: when every   *)
(* connection has an MTU and every indication is confirmed, every          *)
(* connection is indicated and update_value returns Ok.                    *)
C11_IndicationPayload ==
    [][\A value \in CharValues, order \in Orders(DOMAIN apps[CharInterface]),
          outcome \in [ConnIds -> IndOutcomes] :
          RanRound(value, order, outcome)
          => LET bytes == encode_to_vec(char_value')
                 conns == apps[CharInterface]
             IN  /\ char_value' = value \/ uv_result = "blocked"
                 /\ \A i \in 1..Len(indicated') :
                       LET call == indicated'[i] IN
                       /\ call.conn_id \in DOMAIN conns
                       /\ conns[call.conn_id] # None
                       /\ call.gatts_if = CharInterface
                       /\ call.handle = CharHandle
                       /\ call.data = [k \in 1..Min(Len(bytes), conns[call.conn_id])
                                         |-> bytes[k]]
                 /\ (/\ \A c \in DOMAIN conns : conns[c] # None
                     /\ \A c \in DOMAIN conns : outcome[c] = "confirmed")
                    => /\ \A c \in DOMAIN conns : Confirmed(indicated', c)
                       /\ Len(indicated') = Cardinality(DOMAIN conns)
                       /\ uv_result' = "ok"]_vars

(* A three-byte encoded value was indicated to a connection with MTU 2,    *)
(* truncated to two bytes, and whole to a connection with MTU 65535; both  *)
(* were confirmed and update_value returned Ok.                            *)
C11_Witness ==
    /\ uv_result = "ok"
    /\ char_value = <<5, 6>>
    /\ Len(indicated) = 2
    /\ \E i, j \in 1..2 :
          /\ apps[CharInterface][indicated[i].conn_id] = 2
          /\ indicated[i].data = <<2, 5>>
          /\ indicated[i].outcome = "confirmed"
          /\ apps[CharInterface][indicated[j].conn_id] = 65535
          /\ indicated[j].data = <<2, 5, 6>>
          /\ indicated[j].outcome = "confirmed"

-----------------------------------------------------------------------------
(* Connection and auto-advertising properties, checked under SpecGap.      *)

(* The open connections the applications' maps hold, one per application   *)
(* and connection id.                                                      *)
OpenConnections == UNION {{<<i, c>> : c \in DOMAIN apps[i]} : i \in DOMAIN apps}

(* C12: every iteration of the GAP loop takes one connection status from   *)
(* its channel and calls start_advertising if and only if max_connections  *)
(* is Some(max) and the number of open connections over all applications   *)
(* is strictly less than max; with max_connections = None it never calls.  *)
C12_AutoAdvertise ==
    [][GapLoopIter
       => /\ gap_status # <<>>
          /\ gap_seen' = gap_status
          /\ gap_last' \in {"advertise", "skip", "error"}
          /\ gap_last' = "advertise"
                <=> (/\ max_connections # None
                     /\ Cardinality(OpenConnections) < max_connections)]_vars

(* The loop took a Connected status with one connection open and           *)
(* max_connections = Some(1), and did not advertise.                       *)
C12_Witness ==
    /\ gap_seen # <<>>
    /\ gap_seen[1].kind = "connected"
    /\ gap_last = "skip"
    /\ max_connections = 1
    /\ Cardinality(OpenConnections) = 1

(* The step puts a connection status into the GAP loop's channel.          *)
PublishedToGap == gap_status = <<>> /\ gap_status' # <<>>

(* C13: a status is put into the GAP loop's channel only after the map     *)
(* reflects it (a Connected connection is in its application's map, a      *)
(* Disconnected one is not); a PeerDisconnected for a known connection     *)
(* publishes Disconnected as soon as the channel has room; and a loop      *)
(* iteration that takes a Disconnected status with no connection open and  *)
(* max_connections = Some(1) calls start_advertising.                      *)
C13_AdvertiseOnDisconnect ==
    [][/\ PublishedToGap
          => LET st == gap_status'[1] IN
             /\ st.kind = "connected" => st.conn_id \in DOMAIN apps'[st.gatts_if]
             /\ st.kind = "disconnected" => st.conn_id \notin DOMAIN apps'[st.gatts_if]
             /\ st.gatts_if = last_event'[1].gatts_if
             /\ st.conn_id = last_event'[1].conn_id
             /\ st.kind = last_kind'
       /\ (/\ last_kind' = "disconnected"
           /\ HandlePeerDisconnected(last_event'[1].gatts_if, last_event'[1].conn_id)
           /\ last_event'[1].gatts_if \in DOMAIN apps
           /\ last_event'[1].conn_id \in DOMAIN apps[last_event'[1].gatts_if])
          => /\ last_event'[1].conn_id \notin DOMAIN apps'[last_event'[1].gatts_if]
             /\ IF gap_conn_len < CHANNEL_CAPACITY
                THEN gap_status' = <<[kind |-> "disconnected",
                                      gatts_if |-> last_event'[1].gatts_if,
                                      conn_id |-> last_event'[1].conn_id]>>
                ELSE disp' = "blocked" /\ pending'[1].stage = "gap_send"
       /\ (/\ GapLoopIter
           /\ gap_status[1].kind = "disconnected"
           /\ max_connections = 1
           /\ OpenConnections = {})
          => gap_last' = "advertise"]_vars

(* One peer connected and disconnected; the loop took the Disconnected     *)
(* status with no connection open and max_connections = Some(1) and called *)
(* start_advertising.                                                      *)
C13_Witness ==
    /\ last_kind = "disconnected"
    /\ result = "ok"
    /\ gap_seen = <<[kind |-> "disconnected", gatts_if |-> 1, conn_id |-> 1]>>
    /\ gap_conn_len = 0
    /\ OpenConnections = {}
    /\ max_connections = 1
    /\ gap_last = "advertise"

(* The applications whose connection map holds connection id c.            *)
AppsHolding(a, c) == {i \in DOMAIN a : c \in DOMAIN a[i]}

(* The dispatcher takes a PeerDisconnected event in this step.             *)
TookPeerDisconnected ==
    /\ last_kind' = "disconnected"
    /\ last_event' # <<>>
    /\ HandlePeerDisconnected(last_event'[1].gatts_if, last_event'[1].conn_id)

(* C33: PeerDisconnected for a connection in the map of the application of *)
(* its interface removes exactly that connection and sends the             *)
(* Disconnected status carrying it, first to the GAP loop and then on the  *)
(* server-wide channel, waiting in the send of a channel that is full;     *)
(* PeerDisconnected for an unknown interface or a connection id that is    *)
(* not in the map returns an error, sends nothing and changes no map.      *)
C33_PeerDisconnected ==
    [][TookPeerDisconnected
       => LET e == last_event'[1]
              status == ConnectionStatus("disconnected", e.gatts_if, e.conn_id)
          IN  IF e.gatts_if \in DOMAIN apps /\ e.conn_id \in DOMAIN apps[e.gatts_if]
              THEN /\ apps' = [apps EXCEPT ![e.gatts_if] = MapRemove(@, e.conn_id)]
                   /\ IF gap_conn_len < CHANNEL_CAPACITY
                      THEN /\ gap_status' = <<status>>
                           /\ gap_conn_len' = gap_conn_len + 1
                           /\ IF conn_len < CHANNEL_CAPACITY
                              THEN conn_len' = conn_len + 1 /\ result' = "ok"
                              ELSE /\ disp' = "blocked"
                                   /\ pending'[1].stage = "conn_send"
                                   /\ pending'[1].conn_id = e.conn_id
                      ELSE /\ disp' = "blocked"
                           /\ pending'[1].stage = "gap_send"
                           /\ pending'[1].kind = "disconnected"
                           /\ pending'[1].conn_id = e.conn_id
                           /\ UNCHANGED <<gap_status, gap_conn_len, conn_len>>
              ELSE /\ result' = "err"
                   /\ disp' = "idle"
                   /\ UNCHANGED <<apps, gap_status, gap_conn_len, conn_len>>]_vars

(* A PeerDisconnected for a connection that was in the map was handled:    *)
(* the connection is gone and the Disconnected status naming it is in the  *)
(* GAP loop's channel.                                                     *)
C33_Witness ==
    /\ last_kind = "disconnected"
    /\ result = "ok"
    /\ last_event[1].gatts_if \in DOMAIN apps
    /\ last_event[1].conn_id \notin DOMAIN apps[last_event[1].gatts_if]
    /\ gap_status = <<ConnectionStatus("disconnected", last_event[1].gatts_if,
                                       last_event[1].conn_id)>>

(* C38 as stated: with no thread receiving from connections_rx the         *)
(* dispatcher still completes every PeerConnected and PeerDisconnected     *)
(* handler and stays able to take the next Read or Write: it is never left *)
(* waiting in the send on the server-wide connection-status channel, which *)
(* nothing would end.                                                      *)
C38_DispatcherNotStuck ==
    ~(/\ disp = "blocked"
      /\ pending # <<>>
      /\ pending[1].stage = "conn_send"
      /\ conn_len >= CHANNEL_CAPACITY)

(* The dispatcher takes a PeerConnected event in this step.                *)
TookPeerConnected ==
    /\ last_kind' = "connected"
    /\ last_event' # <<>>
    /\ HandlePeerConnected(last_event'[1].gatts_if, last_event'[1].conn_id)

(* C17: whatever interface and connection id the PeerConnected,            *)
(* PeerDisconnected and Mtu events carry, a connection the host reported   *)
(* open is in the connection map of exactly one application: after a       *)
(* PeerConnected is handled its connection id is in exactly one map, and   *)
(* no connection id is ever in the maps of two applications.               *)
C17_ExactlyOneApplication ==
    [][/\ \A c \in GapConnIds : Cardinality(AppsHolding(apps', c)) <= 1
       /\ TookPeerConnected
          => Cardinality(AppsHolding(apps', last_event'[1].conn_id)) = 1]_vars

-----------------------------------------------------------------------------
(* C18: the update stream of an attribute holds at most one update and     *)
(* publishing drops the unconsumed one instead of waiting: the handler of  *)
(* a Write or ExecWrite that updates the attribute's value returns without *)
(* blocking, whether or not a consumer drained the stream.                 *)
C18_PublishNeverBlocks ==
    [][/\ \A d \in Descs : updates_len'[d] <= CHANNEL_CAPACITY
       /\ TookWrite => disp' = "idle"
       /\ TookExec => disp' = "idle"]_vars

-----------------------------------------------------------------------------
(* Registration properties, checked under SpecRegister.                    *)

(* The handles the registry holds attribute object o under.                *)
RegisteredUnder(o) == {h \in DOMAIN attributes : attributes[h] = o}

(* C14: every characteristic and every descriptor the host accepted (its   *)
(* handle is stored) is in the server's handle-indexed registry under      *)
(* exactly that handle and under no other.                                 *)
C14_AcceptedInRegistry ==
    /\ \A c \in Chars : char_handle[c] # None => RegisteredUnder(c) = {char_handle[c]}
    /\ \A d \in Descs : desc_handle[d] # None => RegisteredUnder(d) = {desc_handle[d]}

(* C15: every registered characteristic configured for notify or indicate  *)
(* has, among the descriptors bound to it, one with UUID 0x2902 whose      *)
(* handle is assigned.                                                     *)
C15_NotifyHasCccd ==
    \A c \in Chars :
        (char_handle[c] # None /\ CharNotifies(c))
        => \E d \in Descs : /\ desc_characteristic[d] = c
                            /\ DescUuid(d) = CCCD_UUID
                            /\ desc_handle[d] # None

(* C16: a handle that has been stored for an attribute is never changed    *)
(* by a later step.                                                        *)
C16_HandleSetOnce ==
    [][/\ \A c \in Chars : char_handle[c] # None => char_handle'[c] = char_handle[c]
       /\ \A d \in Descs : desc_handle[d] # None => desc_handle'[d] = desc_handle[d]]_vars

(* The router holds a sender for reply-kind k after the step.              *)
SenderLeft(k) ==
    IF k = "AdvertisingStarted" THEN k \in gap_events' ELSE k \in DOMAIN gatts_events'

(* C19: when a correlated operation whose host call was accepted has      *)
(* returned, with Ok (the reply came), or with Err (the reply reported a   *)
(* failure, named another object, or did not come in time), the router     *)
(* holds no sender for its reply-kind.                                     *)
C19_NoSenderAfterReturn ==
    [][(op_last' # <<>> /\ op_last'[1].host = "ok")
       => ~SenderLeft(op_last'[1].kind)]_vars

(* C20: when the host call of a correlated operation returned an error,    *)
(* the operation returns Err and the router holds no sender for its        *)
(* reply-kind.                                                             *)
C20_HostErrorRemovesSender ==
    [][(op_last' # <<>> /\ op_last'[1].host = "err")
       => /\ op_last'[1].result = "err"
          /\ ~SenderLeft(op_last'[1].kind)]_vars

(* C21: a CharacteristicAdded reply whose char_uuid is not the configured  *)
(* one, or whose service_handle is not the handle of the service being     *)
(* registered on, makes Characteristic::new return Err and leaves the      *)
(* characteristic's handle unset.                                          *)
C21_IdentityValidated ==
    [][\A c \in Chars, reply \in {"other", "other_service"}, handle \in AttrHandles :
          CharacteristicNew(c, "ok", reply, handle, "ok")
          => /\ char_handle'[c] = None
             /\ op_last'[1].result = "err"]_vars

(* C22: a Descriptor::register that returns Err because the handle of the  *)
(* reply is already in the registry leaves the registry as it was: the     *)
(* entry under that handle is not replaced.                                *)
C22_FailedRegistrationKeepsRegistry ==
    [][\A d \in Descs, c \in Chars, handle \in AttrHandles :
          (/\ DescriptorRegister(d, c, "ok", "ok", handle)
           /\ handle \in DOMAIN attributes)
          => /\ op_last'[1].result = "err"
             /\ attributes' = attributes]_vars

-----------------------------------------------------------------------------
(* The fields of the service object: ServiceInner.handle and               *)
(* ServiceInner.characteristics (id and num_handles never change).         *)
ServiceFields == <<service_handle, service_characteristics>>

(* The step is a return of Service::start / Service::stop.                 *)
StartReturned == op_last' # <<>> /\ op_last'[1].op = "start_service"
StopReturned == op_last' # <<>> /\ op_last'[1].op = "stop_service"

(* C37: the host callback and the dispatcher never wait on each other     *)
(* forever: the callback is never blocked in its send into the full        *)
(* dispatcher channel, holding the read lock of the router, while the      *)
(* dispatcher's send_response waits for the write lock of the router.      *)
C37_NoLockCycle ==
    ~(/\ callback = "blocked"
      /\ global_len >= CHANNEL_CAPACITY
      /\ disp = "blocked"
      /\ pending # <<>>
      /\ pending[1].stage = "router_write")

(* The position of a lock in the order router, connections, value.         *)
LockRank(l) == CASE l = "router" -> 1 [] l = "connections" -> 2 [] l = "value" -> 3

(* C31: router before app.connections before attribute.value: on the       *)
(* update_value path no thread takes the router lock while it holds a      *)
(* connections lock or a value lock, nor a connections lock while it holds *)
(* a value lock.                                                           *)
C31_LockOrder ==
    \A t \in Threads : \A i, j \in DOMAIN upd.locks[t] :
        i < j => LockRank(upd.locks[t][i]) <= LockRank(upd.locks[t][j])

(* C39: of two update_value calls that overlap, both waiting for a         *)
(* Confirm, each receives the Confirm of its own indication: none gets     *)
(* the other's, and none runs into the timeout because its sender was      *)
(* replaced.                                                               *)
C39_EachGetsOwnReply ==
    \A t \in Threads : upd.result[t] \in {"none", "confirmed"}

(* C36 as stated: once the GATT server has been dropped the                *)
(* auto-advertising thread issues no further start_advertising call.       *)
C36_NoCallAfterDrop == adv.late_calls = 0

(* C36: once the GATT server has been dropped, the auto-advertising thread *)
(* eventually exits its loop, and it issues at most one start_advertising  *)
(* call after the drop: the call of the iteration whose check had counted  *)
(* the connections before the server was dropped.                          *)
C36_ThreadExits ==
    /\ [](adv.late_calls <= 1)
    /\ (GattsDropped ~> adv.pc = "exited")

C36_Witness == GattsDropped /\ adv.pc = "exited" /\ adv.late_calls = 1

(* A step of Descriptor::register, which installs the DescriptorAdded      *)
(* waiter and makes the add_descriptor call.                               *)
TookDescriptorRegister ==
    /\ op_last' # <<>>
    /\ op_last'[1].op = "add_descriptor"
    /\ desc_replies' = desc_replies
    /\ \E c \in Chars, reply \in Replies, handle \in AttrHandles :
          DescriptorRegister(op_last'[1].obj, c, op_last'[1].host, reply, handle)

(* C35: every add_descriptor call made while a characteristic is           *)
(* registered, the one for the automatic CCCD included, has had its        *)
(* DescriptorAdded reply awaited before the next step: when a descriptor   *)
(* registration installs its waiter, no DescriptorAdded reply of an        *)
(* earlier call is still on its way.                                       *)
C35_NoEarlierReplyPending ==
    [][TookDescriptorRegister => desc_replies = 0]_vars

(* C34 as stated: whatever was registered, the router maps each of Read,   *)
(* Write, ExecWrite, PeerConnected, PeerDisconnected and Mtu to the sender *)
(* installed at server start, the dispatcher's.                            *)
C34_LongLivedKindsReachDispatcher ==
    \A k \in DispatcherKinds : k \in DOMAIN gatts_events /\ gatts_events[k] = "dispatcher"

====
